---- MODULE Spec2Model ----
(***************************************************************************)
(* SaadiyatWOD: the workout classifier, the per-day ranking, and the       *)
(* points aggregation of the profile, own-profile (/me) and monthly        *)
(* standings pages, over the rows of the wods and scores tables.           *)
(*                                                                         *)
(* Conventions.  A nullable string (athlete_id, team_id,                   *)
(* workout_type_override) holds Null when it is null.  A nullable number   *)
(* (time_seconds, amrap_rounds, amrap_reps) is the empty set when null and *)
(* the singleton of its value otherwise.  A text is a TLA+ string, read    *)
(* character by character with Len and SubSeq.  A total of points is kept  *)
(* in half points (total2 = 2 * total), the Rx bonus of 0.5 being one half *)
(* point.  A date is the number of its day: day 1 is a Monday, so the days  *)
(* 6, 7, 13, 14, ... are Saturdays and Sundays, and a month of the model   *)
(* is ten days long (days 1..10, 11..20, ...), so that weeks straddle      *)
(* months as they do in the calendar.  The clock counts minutes; a         *)
(* timestamp (created_at, last_edited_at) is a value of the clock, and     *)
(* only the specification of score edits lets the clock advance.           *)
(***************************************************************************)
EXTENDS Integers, Sequences, FiniteSets, TLC

VARIABLES wods, scores, attendance, today, clock, admin, page, view

vars == <<wods, scores, attendance, today, clock, admin, page, view>>

Null == "null"

\* ───────────────────────── bounds of the model ─────────────────────────

\* most fragments a workout text is made of
MaxFrags == 3

\* most score rows of one day
MaxScores == 4

\* most score rows of a window of two days, and of the days that compare pages
MaxRows == 3

\* most score rows of a month of standings
MaxMonthRows == 6

\* the days up to today of which any may be attended
RecentDays == 8

\* the longest short run of attended days before them, and a run of more
\* than a year
MaxRun == 10

LongRun == 400

\* the iterations of computeStreak's loop
StreakDays == 365

\* ───────────────────────── characters and texts ────────────────────────

CharsOf(s) == {SubSeq(s, i, i) : i \in 1..Len(s)}

UpperCase == "ABCDEFGHIJKLMNOPQRSTUVWXYZ"

LowerCase == "abcdefghijklmnopqrstuvwxyz"

DigitChars == CharsOf("0123456789")

\* \s of a JavaScript regular expression, and what trim() strips
SpaceChars == {" ", "\n", "\t", "\r"}

\* \w of a JavaScript regular expression
WordChars == CharsOf(UpperCase) \cup CharsOf(LowerCase) \cup DigitChars \cup {"_"}

\* . of a JavaScript regular expression: anything but a line terminator
DotChars == (WordChars \cup SpaceChars \cup {":", "-", "+", ","}) \ {"\n", "\r"}

CharAt(t, i) == SubSeq(t, i, i)

toLowerCaseChar(c) ==
    IF c \in CharsOf(UpperCase)
    THEN LET i == CHOOSE k \in 1..Len(UpperCase) : CharAt(UpperCase, k) = c
         IN  CharAt(LowerCase, i)
    ELSE c

RECURSIVE toLowerCase(_)
toLowerCase(t) ==
    IF Len(t) = 0 THEN ""
    ELSE toLowerCaseChar(CharAt(t, 1)) \o toLowerCase(SubSeq(t, 2, Len(t)))

RECURSIVE trimStart(_)
trimStart(t) ==
    IF Len(t) > 0 /\ CharAt(t, 1) \in SpaceChars
    THEN trimStart(SubSeq(t, 2, Len(t)))
    ELSE t

RECURSIVE trimEnd(_)
trimEnd(t) ==
    IF Len(t) > 0 /\ CharAt(t, Len(t)) \in SpaceChars
    THEN trimEnd(SubSeq(t, 1, Len(t) - 1))
    ELSE t

trim(t) == trimEnd(trimStart(t))

\* ───────────────────────── regular expressions ─────────────────────────
\* A pattern is a sequence of elements: one character of a class ("ch"),
\* one or more ("plus"), zero or more ("star"), or a word boundary ("wb").
\* An alternation (a|b) is written as two patterns.

Lit(s) == [i \in 1..Len(s) |-> [k |-> "ch", cs |-> {CharAt(s, i)}]]

OneOf(S) == <<[k |-> "ch", cs |-> S]>>

WS1 == <<[k |-> "plus", cs |-> SpaceChars]>>

WS0 == <<[k |-> "star", cs |-> SpaceChars]>>

Digits1 == <<[k |-> "plus", cs |-> DigitChars]>>

Any0 == <<[k |-> "star", cs |-> DotChars]>>

WB == <<[k |-> "wb", cs |-> {}]>>

IsWordAt(t, i) == i >= 1 /\ i <= Len(t) /\ CharAt(t, i) \in WordChars

RECURSIVE MatchAt(_, _, _, _)
MatchAt(pat, k, t, i) ==
    IF k > Len(pat) THEN TRUE
    ELSE LET e == pat[k]
             here == i <= Len(t) /\ CharAt(t, i) \in e.cs
         IN  CASE e.k = "ch"   -> here /\ MatchAt(pat, k + 1, t, i + 1)
               [] e.k = "plus" -> here /\ (\/ MatchAt(pat, k + 1, t, i + 1)
                                           \/ MatchAt(pat, k, t, i + 1))
               [] e.k = "star" -> \/ MatchAt(pat, k + 1, t, i)
                                  \/ here /\ MatchAt(pat, k, t, i + 1)
               [] e.k = "wb"   -> /\ IsWordAt(t, i - 1) # IsWordAt(t, i)
                                  /\ MatchAt(pat, k + 1, t, i)

\* RegExp.prototype.test: the pattern matches somewhere in the text
Test(pat, t) == \E i \in 1..(Len(t) + 1) : MatchAt(pat, 1, t, i)

TestAny(pats, t) == \E n \in 1..Len(pats) : Test(pats[n], t)

\* ───────────────────────── lib/wodType.ts ──────────────────────────────

NoScorePatterns == <<
    WB \o Lit("emom") \o WB,
    WB \o Lit("e") \o OneOf(CharsOf("23456789")) \o Lit("mom") \o WB,
    Lit("every") \o WS1 \o Lit("minute") \o WS1 \o Lit("on") \o WS1
        \o Lit("the") \o WS1 \o Lit("minute"),
    Lit("every") \o WS1 \o Digits1 \o WS1 \o Lit("minute"),
    Lit("for") \o WS1 \o Lit("quality"),
    Lit("not") \o WS1 \o Lit("for") \o WS1 \o Lit("time"),
    WB \o Lit("skill") \o WB,
    WB \o Lit("strength") \o WB >>

CaloriesPatterns == <<
    WB \o Lit("max") \o WS1 \o Lit("cal") \o WB,
    WB \o Lit("max") \o WS1 \o Lit("calories") \o WB,
    WB \o Lit("for") \o WS1 \o Lit("cal") \o WB,
    WB \o Lit("for") \o WS1 \o Lit("calories") \o WB,
    WB \o Lit("calorie") \o WS1 \o Lit("challenge") \o WB >>

AmrapPatterns == <<
    WB \o Lit("amrap") \o WB,
    Lit("as") \o WS1 \o Lit("many") \o WS1 \o Lit("rounds") \o WS1
        \o Lit("as") \o WS1 \o Lit("possible"),
    Lit("as") \o WS1 \o Lit("many") \o WS1 \o Lit("reps") \o WS1
        \o Lit("as") \o WS1 \o Lit("possible"),
    Lit("max") \o WS1 \o Lit("rounds"),
    Lit("max") \o WS1 \o Lit("reps"),
    Lit("score") \o WS0 \o OneOf({":", "-"}) \o WS0 \o Lit("rounds"),
    Lit("score") \o WS0 \o OneOf({":", "-"}) \o WS0 \o Lit("reps") >>

TimePatterns == <<
    Lit("for") \o WS1 \o Lit("time"),
    WB \o Lit("time") \o WS0 \o Lit("cap") \o WB,
    WB \o Lit("tcap") \o WB,
    Lit("complete") \o WS1 \o Any0 \o Lit("for") \o WS1 \o Lit("time") >>

detectAmrapFirst(rawText) ==
    LET text == trim(rawText)
        t == toLowerCase(text)
    IN  IF Len(text) = 0 THEN "UNKNOWN"
        ELSE IF TestAny(AmrapPatterns, t) THEN "AMRAP"
        ELSE IF TestAny(NoScorePatterns, t) THEN "NO_SCORE"
        ELSE IF TestAny(CaloriesPatterns, t) THEN "CALORIES"
        ELSE "TIME"

detectWorkoutTypeFromWodText(rawText) ==
    LET text == trim(rawText)
        t == toLowerCase(text)
    IN  IF Len(text) = 0 THEN "UNKNOWN"
        ELSE IF TestAny(NoScorePatterns, t) THEN "NO_SCORE"
        ELSE IF TestAny(CaloriesPatterns, t) THEN "CALORIES"
        ELSE IF TestAny(AmrapPatterns, t) THEN "AMRAP"
        ELSE IF TestAny(TimePatterns, t) THEN "TIME"
        ELSE "TIME"

\* ───────────────────────── effective type ──────────────────────────────

\* a ?? b on a nullable string
Coalesce(a, b) == IF a = Null THEN b ELSE a

\* A wod that may be missing (Wod | null) is the empty sequence when it is
\* null and the sequence of the one row otherwise.
NoWod == <<>>

effectiveTypeTextFirst(wod) ==
    IF wod = NoWod THEN "UNKNOWN"
    ELSE detectWorkoutTypeFromWodText(wod[1].wod_text)

\* app/page.tsx: the home page, whose wod may be missing
effectiveType(wod) ==
    IF wod = NoWod THEN "UNKNOWN"
    ELSE Coalesce(wod[1].workout_type_override,
                  detectWorkoutTypeFromWodText(wod[1].wod_text))

\* app/profile/[id]/page.tsx and the /me page
getEffectiveType(wod) ==
    Coalesce(wod.workout_type_override,
             detectWorkoutTypeFromWodText(wod.wod_text))

\* ───────────────────────── score values ────────────────────────────────

\* x ?? d on a nullable number
NumOr(x, d) == IF x = {} THEN d ELSE CHOOSE v \in x : TRUE

compareTimeNullAsZero(a, b) == NumOr(a.time_seconds, 0) - NumOr(b.time_seconds, 0)

\* (a.time_seconds ?? Infinity) - (b.time_seconds ?? Infinity), as the sort
\* reads it: Infinity - Infinity is NaN, which Array.prototype.sort takes as 0
compareTime(a, b) ==
    IF a.time_seconds = {} /\ b.time_seconds = {} THEN 0
    ELSE IF a.time_seconds = {} THEN 1
    ELSE IF b.time_seconds = {} THEN -1
    ELSE NumOr(a.time_seconds, 0) - NumOr(b.time_seconds, 0)

\* (s.amrap_rounds ?? -1) * 10000 + (s.amrap_reps ?? -1)
amrapValue(s) == NumOr(s.amrap_rounds, -1) * 10000 + NumOr(s.amrap_reps, -1)

\* the comparator of the sort: negative when a is ranked before b
compareScores(a, b, type) ==
    IF type = "TIME" THEN compareTime(a, b)
    ELSE amrapValue(b) - amrapValue(a)

\* the tie test that groups a band
tied(cur, next, type) ==
    IF type = "TIME"
    THEN \/ cur.time_seconds = {} /\ next.time_seconds = {}
         \/ /\ cur.time_seconds # {}
            /\ next.time_seconds # {}
            /\ NumOr(cur.time_seconds, 0) = NumOr(next.time_seconds, 0)
    ELSE /\ NumOr(cur.amrap_rounds, -1) = NumOr(next.amrap_rounds, -1)
         /\ NumOr(cur.amrap_reps, -1) = NumOr(next.amrap_reps, -1)

\* Array.prototype.sort is stable: a row goes after every row that does not
\* compare greater than it
RECURSIVE sortRows(_, _)
sortRows(rows, type) ==
    IF Len(rows) = 0 THEN <<>>
    ELSE LET n    == Len(rows)
             acc  == sortRows(SubSeq(rows, 1, n - 1), type)
             x    == rows[n]
             keep == Cardinality({i \in 1..Len(acc) : compareScores(acc[i], x, type) <= 0})
         IN  SubSeq(acc, 1, keep) \o <<x>> \o SubSeq(acc, keep + 1, Len(acc))

\* [...new Set(list)]: the first occurrence of each element, in order
RECURSIVE dedup(_)
dedup(list) ==
    IF Len(list) = 0 THEN <<>>
    ELSE LET n    == Len(list)
             head == dedup(SubSeq(list, 1, n - 1))
         IN  IF \E i \in 1..(n - 1) : list[i] = list[n] THEN head
             ELSE Append(head, list[n])

Ids(rows) == [i \in 1..Len(rows) |-> rows[i].athlete_id]

onDate(rows, date) == SelectSeq(rows, LAMBDA s : s.wod_date = date)

\* ───────────────────────── rankForDate (profile, /me) ──────────────────

\* the first row of each team, in the order the teams are first seen
teamRepresentatives(rows) ==
    LET idx == {i \in 1..Len(rows) :
                  /\ rows[i].team_id # Null
                  /\ ~\E j \in 1..(i - 1) : rows[j].team_id = rows[i].team_id}
    IN  SelectSeq([i \in 1..Len(rows) |-> [row |-> rows[i], first |-> i \in idx]],
                  LAMBDA e : e.first)

\* a variant that keeps every row without a team
individualsEveryRow(rows) ==
    SelectSeq([i \in 1..Len(rows) |-> [row |-> rows[i], first |-> rows[i].team_id = Null]],
              LAMBDA e : e.first)

\* the first row of each athlete_id among the rows without a team
individualsFirstSeen(rows) ==
    LET idx == {i \in 1..Len(rows) :
                  /\ rows[i].team_id = Null
                  /\ ~\E j \in 1..(i - 1) :
                        rows[j].team_id = Null /\ rows[j].athlete_id = rows[i].athlete_id}
    IN  SelectSeq([i \in 1..Len(rows) |-> [row |-> rows[i], first |-> i \in idx]],
                  LAMBDA e : e.first)

Rows(entries) == [i \in 1..Len(entries) |-> entries[i].row]

representatives(rows) ==
    Rows(teamRepresentatives(rows)) \o Rows(individualsFirstSeen(rows))

expandRepOnly(rows, rep) == <<rep.athlete_id>>

\* the athlete ids a representative puts in its band
expand(rows, rep) ==
    IF rep.team_id # Null
    THEN Ids(SelectSeq(rows, LAMBDA s : s.team_id = rep.team_id))
    ELSE <<rep.athlete_id>>

\* the index after the last row of the tie group that starts at i
RECURSIVE bandEnd(_, _, _, _)
bandEnd(sorted, i, j, type) ==
    IF j <= Len(sorted) /\ (j = i \/ tied(sorted[i], sorted[j], type))
    THEN bandEnd(sorted, i, j + 1, type)
    ELSE j

RECURSIVE expandAll(_, _, _, _)
expandAll(rows, sorted, i, j) ==
    IF i >= j THEN <<>>
    ELSE expand(rows, sorted[i]) \o expandAll(rows, sorted, i + 1, j)

\* rank += band.length, in rankForDate
advance(rank, n) == rank + n

RECURSIVE rankLoop(_, _, _, _, _)
rankLoop(rows, sorted, i, rank, type) ==
    IF i <= Len(sorted) /\ rank <= 3
    THEN LET j    == bandEnd(sorted, i, i, type)
             band == expandAll(rows, sorted, i, j)
         IN  <<dedup(band)>> \o rankLoop(rows, sorted, j, advance(rank, Len(band)), type)
    ELSE <<>>

rankForDate(rows, type) ==
    IF type = "NO_SCORE" \/ type = "UNKNOWN" THEN <<>>
    ELSE rankLoop(rows, sortRows(representatives(rows), type), 1, 1, type)

\* ───────────────────────── points maps ─────────────────────────────────
\* A Map from athlete id to counters is the sequence of its entries in
\* insertion order.

has(map, id) == \E i \in 1..Len(map) : map[i].id = id

get(map, id) == map[CHOOSE i \in 1..Len(map) : map[i].id = id]

ensure(map, id) ==
    IF has(map, id) THEN map
    ELSE Append(map, [id |-> id, gold |-> 0, silver |-> 0, bronze |-> 0, total2 |-> 0])

\* rank === 1 ? 3 : rank === 2 ? 2 : rank === 3 ? 1 : 0
pointsForRank(rank) ==
    IF rank = 1 THEN 3 ELSE IF rank = 2 THEN 2 ELSE IF rank = 3 THEN 1 ELSE 0

\* one athlete of a band: its medal counter, and e.total += p
award(map, id, p) ==
    LET m == ensure(map, id)
    IN  [i \in 1..Len(m) |->
           IF m[i].id # id THEN m[i]
           ELSE [m[i] EXCEPT !.gold   = @ + (IF p = 3 THEN 1 ELSE 0),
                             !.silver = @ + (IF p = 2 THEN 1 ELSE 0),
                             !.bronze = @ + (IF p = 1 THEN 1 ELSE 0),
                             !.total2 = @ + 2 * p]]

RECURSIVE awardBand(_, _, _, _)
awardBand(map, band, k, p) ==
    IF k > Len(band) THEN map
    ELSE awardBand(award(map, band[k], p), band, k + 1, p)

\* rank += band.length, in computeMonthlyPoints
nextRank(rank, n) == rank + n

RECURSIVE awardBands(_, _, _, _)
awardBands(map, bands, k, rank) ==
    IF k > Len(bands) \/ pointsForRank(rank) = 0 THEN map
    ELSE awardBands(awardBand(map, bands[k], 1, pointsForRank(rank)),
                    bands, k + 1, nextRank(rank, Len(bands[k])))

RECURSIVE medalLoop(_, _, _, _)
medalLoop(map, ws, k, rows) ==
    IF k > Len(ws) THEN map
    ELSE LET type  == getEffectiveType(ws[k])
             bands == rankForDate(onDate(rows, ws[k].wod_date), type)
         IN  medalLoop(awardBands(map, bands, 1, 1), ws, k + 1, rows)

\* app/profile/[id]/page.tsx
computeMonthlyPoints(ws, rows) == medalLoop(<<>>, ws, 1, rows)

\* ───────────────────────── computeMonthlyPoints (/me) ──────────────────

\* wods.find((w) => w.wod_date === s.wod_date)
findWod(ws, date) ==
    IF \E i \in 1..Len(ws) : ws[i].wod_date = date
    THEN <<ws[CHOOSE i \in 1..Len(ws) :
                /\ ws[i].wod_date = date
                /\ ~\E j \in 1..(i - 1) : ws[j].wod_date = date]>>
    ELSE NoWod

earnsRxAlways(ws, s) == s.is_rx

\* a row that puts its date in the rxMap of its athlete
earnsRx(ws, s) ==
    /\ s.is_rx
    /\ s.athlete_id # Null
    /\ LET wod == findWod(ws, s.wod_date)
       IN  /\ wod # NoWod
           /\ getEffectiveType(wod[1]) \notin {"NO_SCORE", "UNKNOWN"}

\* rxMap: athlete id -> the set of dates, in insertion order
rxMapOf(ws, rows) ==
    LET rx  == SelectSeq(rows, LAMBDA s : earnsRx(ws, s))
        ids == dedup(Ids(rx))
    IN  [k \in 1..Len(ids) |->
           [id |-> ids[k],
            dates |-> {rx[i].wod_date : i \in {n \in 1..Len(rx) : rx[n].athlete_id = ids[k]}}]]

addBonusFullPoint(map, id, n) ==
    LET m == ensure(map, id)
    IN  [i \in 1..Len(m) |->
           IF m[i].id # id THEN m[i] ELSE [m[i] EXCEPT !.total2 = @ + 2 * n]]

\* e.total += dates.size * 0.5
addBonus(map, id, n) ==
    LET m == ensure(map, id)
    IN  [i \in 1..Len(m) |-> IF m[i].id # id THEN m[i] ELSE [m[i] EXCEPT !.total2 = @ + n]]

RECURSIVE bonusLoop(_, _, _)
bonusLoop(map, rxMap, k) ==
    IF k > Len(rxMap) THEN map
    ELSE bonusLoop(addBonus(map, rxMap[k].id, Cardinality(rxMap[k].dates)), rxMap, k + 1)

\* the /me page
computeMonthlyPointsMe(ws, rows) ==
    bonusLoop(medalLoop(<<>>, ws, 1, rows), rxMapOf(ws, rows), 1)

\* ───────────────────────── monthly standings page ──────────────────────

\* the first row of each athlete_id
uniqueByAthlete(rows) ==
    LET idx == {i \in 1..Len(rows) :
                  ~\E j \in 1..(i - 1) : rows[j].athlete_id = rows[i].athlete_id}
    IN  Rows(SelectSeq([i \in 1..Len(rows) |-> [row |-> rows[i], first |-> i \in idx]],
                       LAMBDA e : e.first))

RECURSIVE monthlyBands(_, _, _)
monthlyBands(sorted, i, type) ==
    IF i > Len(sorted) THEN <<>>
    ELSE LET j == bandEnd(sorted, i, i, type)
         IN  <<Ids(SubSeq(sorted, i, j - 1))>> \o monthlyBands(sorted, j, type)

\* a variant that keeps every band
sliceAll(list) == list

\* ranks.slice(0, 3)
slice3(list) == SubSeq(list, 1, IF Len(list) < 3 THEN Len(list) ELSE 3)

monthlyRankForDate(rows, type) ==
    IF type = "NO_SCORE" \/ type = "UNKNOWN" THEN <<>>
    ELSE slice3(monthlyBands(sortRows(uniqueByAthlete(rows), type), 1, type))

\* every row without a team, in order
individualsAll(rows) == SelectSeq(rows, LAMBDA s : s.team_id = Null)

\* scoresForDate.find((s) => s.athlete_id === athleteId)
findByAthlete(rows, id) ==
    rows[CHOOSE i \in 1..Len(rows) :
           /\ rows[i].athlete_id = id
           /\ ~\E j \in 1..(i - 1) : rows[j].athlete_id = id]

teamMembers(rows, id) ==
    LET rep == findByAthlete(rows, id)
    IN  IF rep.team_id # Null
        THEN Ids(SelectSeq(rows, LAMBDA s : s.team_id = rep.team_id))
        ELSE <<id>>

RECURSIVE monthlyAwardBand(_, _, _, _, _)
monthlyAwardBand(map, rows, band, k, p) ==
    IF k > Len(band) THEN map
    ELSE monthlyAwardBand(awardBand(map, teamMembers(rows, band[k]), 1, p),
                          rows, band, k + 1, p)

\* pts[rankIdx] ?? 0, with pts = [3, 2, 1]; rankIdx counts from 0
pointsForIndex(rankIdx) ==
    IF rankIdx = 0 THEN 3 ELSE IF rankIdx = 1 THEN 2 ELSE IF rankIdx = 2 THEN 1 ELSE 0

RECURSIVE monthlyAwardBands(_, _, _, _)
monthlyAwardBands(map, rows, bands, k) ==
    IF k > Len(bands) THEN map
    ELSE LET p == pointsForIndex(k - 1)
         IN  monthlyAwardBands(
                 IF p = 0 THEN map ELSE monthlyAwardBand(map, rows, bands[k], 1, p),
                 rows, bands, k + 1)

RECURSIVE monthlyLoop(_, _, _, _)
monthlyLoop(map, ws, k, rows) ==
    IF k > Len(ws) THEN map
    ELSE LET type == getEffectiveType(ws[k])
             day  == onDate(rows, ws[k].wod_date)
             reps == Rows(teamRepresentatives(day)) \o individualsAll(day)
         IN  monthlyLoop(monthlyAwardBands(map, day, monthlyRankForDate(reps, type), 1),
                         ws, k + 1, rows)

\* the profiles table: id and display_name (null for D)
profiles == <<[id |-> "A", display_name |-> "Alice"],
              [id |-> "B", display_name |-> "Bob"],
              [id |-> "C", display_name |-> "Carol"],
              [id |-> "D", display_name |-> Null]>>

\* profile?.display_name ?? 'Unknown'
displayName(ps, id) ==
    IF \E i \in 1..Len(ps) : ps[i].id = id
    THEN Coalesce(ps[CHOOSE i \in 1..Len(ps) : ps[i].id = id].display_name, "Unknown")
    ELSE "Unknown"

\* a.display_name.localeCompare(b.display_name), over the names of the model
NameOrder == <<"Alice", "Bob", "Carol", "Unknown">>

localeCompare(a, b) ==
    (CHOOSE i \in 1..Len(NameOrder) : NameOrder[i] = a)
  - (CHOOSE i \in 1..Len(NameOrder) : NameOrder[i] = b)

compareStandingsGoldFirst(a, b) ==
    IF b.gold # a.gold THEN b.gold - a.gold
    ELSE IF b.total2 # a.total2 THEN b.total2 - a.total2
    ELSE IF b.silver # a.silver THEN b.silver - a.silver
    ELSE IF b.bronze # a.bronze THEN b.bronze - a.bronze
    ELSE localeCompare(a.display_name, b.display_name)

compareStandings(a, b) ==
    IF b.total2 # a.total2 THEN b.total2 - a.total2
    ELSE IF b.gold # a.gold THEN b.gold - a.gold
    ELSE IF b.silver # a.silver THEN b.silver - a.silver
    ELSE IF b.bronze # a.bronze THEN b.bronze - a.bronze
    ELSE localeCompare(a.display_name, b.display_name)

RECURSIVE sortStandings(_)
sortStandings(rows) ==
    IF Len(rows) = 0 THEN <<>>
    ELSE LET n    == Len(rows)
             acc  == sortStandings(SubSeq(rows, 1, n - 1))
             x    == rows[n]
             keep == Cardinality({i \in 1..Len(acc) : compareStandings(acc[i], x) <= 0})
         IN  SubSeq(acc, 1, keep) \o <<x>> \o SubSeq(acc, keep + 1, Len(acc))

\* app/monthly/page.tsx
computePoints(ws, rows, ps) ==
    LET map == monthlyLoop(<<>>, ws, 1, rows)
    IN  sortStandings([i \in 1..Len(map) |->
            [id |-> map[i].id, display_name |-> displayName(ps, map[i].id),
             gold |-> map[i].gold, silver |-> map[i].silver, bronze |-> map[i].bronze,
             total2 |-> 2 * (map[i].gold * 3 + map[i].silver * 2 + map[i].bronze)]])

\* ───────────────────────── the wods table ─────────────────────────────

\* .eq('wod_date', date).maybeSingle()
maybeSingle(rows, date) ==
    IF \E i \in 1..Len(rows) : rows[i].wod_date = date
    THEN <<rows[CHOOSE i \in 1..Len(rows) : rows[i].wod_date = date]>>
    ELSE NoWod

\* upsert(payload, { onConflict: 'wod_date' }); wod_date is the primary key
UpsertWod(rows, w) ==
    IF \E i \in 1..Len(rows) : rows[i].wod_date = w.wod_date
    THEN [i \in 1..Len(rows) |-> IF rows[i].wod_date = w.wod_date THEN w ELSE rows[i]]
    ELSE Append(rows, w)

\* typeOverride || null
OrNull(s) == IF s = "" THEN Null ELSE s

\* ───────────────────────── admin page ──────────────────────────────────

\* what an admin types, piece by piece
Fragments == {" ", "emom ", "AMRAP", "max cal", "for time", "not ", "s", "e2mom"}

\* the override buttons of the admin form; "" is no override
OverrideOptions == {"", "TIME", "AMRAP", "NO_SCORE"}

\* texts an admin saves in the specifications that rank scores
SavedTexts == {"amrap ", "emom", "run", " "}

HomeDates == {1, 2}

InitAdmin ==
    /\ wods = <<>>
    /\ scores = <<>>
    /\ attendance = {}
    /\ today = 1
    /\ clock = 0
    /\ page = "admin"
    /\ admin = [wodText |-> "", typed |-> 0, detectedType |-> detectWorkoutTypeFromWodText("")]
    /\ view = [type |-> "UNKNOWN"]

\* the textarea's onChange, and the render that follows it
AdminType(f) ==
    /\ page = "admin"
    /\ admin.typed < MaxFrags
    /\ LET text == admin.wodText \o f
       IN  admin' = [wodText |-> text, typed |-> admin.typed + 1,
                     detectedType |-> detectWorkoutTypeFromWodText(text)]
    /\ UNCHANGED <<wods, scores, page, view, attendance, today, clock>>

NextAdmin == \E f \in Fragments : AdminType(f)

SpecAdmin == InitAdmin /\ [][NextAdmin]_vars

\* handleSave of the admin page, with the form's fields as its inputs
handleSave(wodDate, wodText, typeOverride) ==
    /\ Len(trim(wodText)) > 0
    /\ wods' = UpsertWod(wods, [wod_date |-> wodDate, wod_text |-> trim(wodText),
                               workout_type_override |-> OrNull(typeOverride)])
    /\ page' = "admin"
    /\ view' = [type |-> "UNKNOWN"]
    /\ UNCHANGED <<scores, admin, attendance, today, clock>>

\* ───────────────────────── home page ───────────────────────────────────

\* loadDateData and the render that follows it
LoadHome(date) ==
    /\ LET wod == maybeSingle(wods, date)
       IN  view' = [date |-> date, wod |-> wod, type |-> effectiveType(wod)]
    /\ page' = "home"
    /\ UNCHANGED <<wods, scores, admin, attendance, today, clock>>

InitHome ==
    /\ wods = <<>>
    /\ scores = <<>>
    /\ attendance = {}
    /\ today = 1
    /\ clock = 0
    /\ page = "admin"
    /\ admin = [wodText |-> "", typed |-> 0, detectedType |-> "UNKNOWN"]
    /\ view = [type |-> "UNKNOWN"]

NextHome ==
    \/ \E d \in HomeDates, t \in SavedTexts, o \in OverrideOptions : handleSave(d, t, o)
    \/ \E d \in HomeDates : LoadHome(d)

SpecHome == InitHome /\ [][NextHome]_vars

\* ───────────────────────── the calendar ───────────────────────────────

\* new Date(d + 'T12:00:00').getDay(): 0 is Sunday, 6 is Saturday
getDay(d) == d % 7

\* the Monday of the week that holds d
getWeekMonday(d) ==
    LET day  == getDay(d)
        diff == IF day = 0 THEN -6 ELSE 1 - day
    IN  d + diff

\* the Friday of the week that starts on mon
getWeekFriday(mon) == mon + 4

\* d.slice(0, 7), the month of a date
monthOf(d) == (d - 1) \div 10

\* ───────────────────────── computeStreak ──────────────────────────────

\* one iteration of the loop of computeStreak on day w.d: the weekend is
\* skipped, an attended day counts, an absent today is skipped, and any
\* other absent day ends the loop
streakStepSundayOnly(attendedSet, now, w) ==
    IF getDay(w.d) = 0
    THEN [w EXCEPT !.d = @ - 1, !.i = @ + 1]
    ELSE IF w.d \in attendedSet
    THEN [w EXCEPT !.d = @ - 1, !.i = @ + 1, !.streak = @ + 1]
    ELSE IF w.d = now
    THEN [w EXCEPT !.d = @ - 1, !.i = @ + 1]
    ELSE [w EXCEPT !.broken = TRUE]

streakStepTodayBreaks(attendedSet, now, w) ==
    IF getDay(w.d) = 0 \/ getDay(w.d) = 6
    THEN [w EXCEPT !.d = @ - 1, !.i = @ + 1]
    ELSE IF w.d \in attendedSet
    THEN [w EXCEPT !.d = @ - 1, !.i = @ + 1, !.streak = @ + 1]
    ELSE [w EXCEPT !.broken = TRUE]

streakStep(attendedSet, now, w) ==
    IF getDay(w.d) = 0 \/ getDay(w.d) = 6
    THEN [w EXCEPT !.d = @ - 1, !.i = @ + 1]
    ELSE IF w.d \in attendedSet
    THEN [w EXCEPT !.d = @ - 1, !.i = @ + 1, !.streak = @ + 1]
    ELSE IF w.d = now
    THEN [w EXCEPT !.d = @ - 1, !.i = @ + 1]
    ELSE [w EXCEPT !.broken = TRUE]

\* up to n iterations of the loop
RECURSIVE streakSteps(_, _, _, _)
streakSteps(attendedSet, now, w, n) ==
    IF n = 0 \/ w.broken \/ w.i >= StreakDays THEN w
    ELSE streakSteps(attendedSet, now, streakStep(attendedSet, now, w), n - 1)

\* the loop, thirty iterations at a time, up to the state it ends in
RECURSIVE streakWalk(_, _, _)
streakWalk(attendedSet, now, w) ==
    IF w.broken \/ w.i >= StreakDays THEN w
    ELSE streakWalk(attendedSet, now, streakSteps(attendedSet, now, w, 30))

\* the state the loop of computeStreak ends in: i counts its iterations
streakLoopOfThirteenMonths(attendedSet, now) ==
    streakWalk(attendedSet, now, [d |-> now, i |-> 0 - 30, streak |-> 0, broken |-> FALSE])

streakLoop(attendedSet, now) ==
    streakWalk(attendedSet, now, [d |-> now, i |-> 0, streak |-> 0, broken |-> FALSE])

computeStreak(attendedSet, now) == streakLoop(attendedSet, now).streak

\* ───────────────────────── computeStats ───────────────────────────────

\* the comparator of the podium sort: total, gold, silver, bronze
comparePodium(a, b) ==
    IF b.total2 # a.total2 THEN b.total2 - a.total2
    ELSE IF b.gold # a.gold THEN b.gold - a.gold
    ELSE IF b.silver # a.silver THEN b.silver - a.silver
    ELSE b.bronze - a.bronze

RECURSIVE sortPodium(_)
sortPodium(rows) ==
    IF Len(rows) = 0 THEN <<>>
    ELSE LET n    == Len(rows)
             acc  == sortPodium(SubSeq(rows, 1, n - 1))
             x    == rows[n]
             keep == Cardinality({i \in 1..Len(acc) : comparePodium(acc[i], x) <= 0})
         IN  SubSeq(acc, 1, keep) \o <<x>> \o SubSeq(acc, keep + 1, Len(acc))

\* ranked.findIndex(([id]) => id === uid), -1 when there is none
podiumIndex(pointsMap, uid) ==
    LET ranked == sortPodium(SelectSeq(pointsMap, LAMBDA e : e.total2 > 0))
    IN  IF \E i \in 1..Len(ranked) : ranked[i].id = uid
        THEN (CHOOSE i \in 1..Len(ranked) :
                 /\ ranked[i].id = uid
                 /\ \A j \in 1..(i - 1) : ranked[j].id # uid) - 1
        ELSE -1

includes(band, id) == \E k \in 1..Len(band) : band[k] = id

\* the rows of dayScores, other than the athlete's, with a better value
betterRows(uid, dayScores, type, my) ==
    {i \in 1..Len(dayScores) :
       /\ dayScores[i].athlete_id # uid
       /\ IF type = "TIME"
          THEN compareTime(dayScores[i], my) < 0
          ELSE amrapValue(dayScores[i]) > amrapValue(my)}

min(a, b) == IF a < b THEN a ELSE b

\* one pass of the daily loop: no placement, or the placement of the date
placementOn(uid, date, allScores, allWods) ==
    LET wod == maybeSingle(allWods, date)
    IN  IF wod = NoWod THEN <<>>
        ELSE LET type      == getEffectiveType(wod[1])
                 dayScores == onDate(allScores, date)
                 bands     == rankForDate(dayScores, type)
                 mine      == SelectSeq(dayScores, LAMBDA r : r.athlete_id = uid)
             IN  IF type \in {"NO_SCORE", "UNKNOWN"} THEN <<>>
                 ELSE IF Len(bands) >= 1 /\ includes(bands[1], uid)
                      THEN <<[date |-> date, rank |-> 1]>>
                 ELSE IF Len(bands) >= 2 /\ includes(bands[2], uid)
                      THEN <<[date |-> date, rank |-> 2]>>
                 ELSE IF Len(bands) >= 3 /\ includes(bands[3], uid)
                      THEN <<[date |-> date, rank |-> 3]>>
                 ELSE IF Len(mine) = 0 THEN <<>>
                 ELSE <<[date |-> date,
                         rank |-> min(4 + Cardinality(betterRows(uid, dayScores, type, mine[1])),
                                      10)]>>

RECURSIVE dailyLoop(_, _, _, _, _)
dailyLoop(uid, dates, k, allScores, allWods) ==
    IF k > Len(dates) THEN <<>>
    ELSE placementOn(uid, dates[k], allScores, allWods)
           \o dailyLoop(uid, dates, k + 1, allScores, allWods)

\* placements.sort((a, b) => a.date.localeCompare(b.date))
RECURSIVE sortByDate(_)
sortByDate(ps) ==
    IF Len(ps) = 0 THEN <<>>
    ELSE LET n    == Len(ps)
             acc  == sortByDate(SubSeq(ps, 1, n - 1))
             x    == ps[n]
             keep == Cardinality({i \in 1..Len(acc) : acc[i].date <= x.date})
         IN  SubSeq(acc, 1, keep) \o <<x>> \o SubSeq(acc, keep + 1, Len(acc))

RECURSIVE sumRanks(_)
sumRanks(ps) == IF Len(ps) = 0 THEN 0 ELSE ps[1].rank + sumRanks(Tail(ps))

\* a variant that reports 0 for an empty list
averageOrZero(ps) ==
    IF Len(ps) > 0 THEN {[sum |-> sumRanks(ps), count |-> Len(ps)]}
    ELSE {[sum |-> 0, count |-> 1]}

\* the mean of the ranks, kept as the fraction sum / count; null is {}
average(ps) ==
    IF Len(ps) > 0 THEN {[sum |-> sumRanks(ps), count |-> Len(ps)]} ELSE {}

datesOfRank(ps, r) ==
    LET sel == SelectSeq(ps, LAMBDA e : e.rank = r)
    IN  [i \in 1..Len(sel) |-> sel[i].date]

\* the Mondays of the weeks of the dates
mondaysOf(dates) == [i \in 1..Len(dates) |-> getWeekMonday(dates[i])]

\* [...new Set(...)].filter(...).sort() of numbers that are dates
RECURSIVE sortAscending(_)
sortAscending(xs) ==
    IF Len(xs) = 0 THEN <<>>
    ELSE LET n    == Len(xs)
             acc  == sortAscending(SubSeq(xs, 1, n - 1))
             x    == xs[n]
             keep == Cardinality({i \in 1..Len(acc) : acc[i] <= x})
         IN  SubSeq(acc, 1, keep) \o <<x>> \o SubSeq(acc, keep + 1, Len(acc))

\* the months of myDates that are before the current month
completedMonths(myDates, now) ==
    SelectSeq(dedup([i \in 1..Len(myDates) |-> monthOf(myDates[i])]),
              LAMBDA m : m < monthOf(now))

\* a variant that takes a week as completed on its Friday
completedWeeksThroughFriday(myDates, now) ==
    sortAscending(
      SelectSeq(dedup(mondaysOf(SelectSeq(myDates, LAMBDA d : getDay(d) >= 1 /\ getDay(d) <= 5))),
                LAMBDA mon : getWeekFriday(mon) <= now))

\* the Mondays of the weekdays of myDates whose Friday is before today
completedWeeks(myDates, now) ==
    sortAscending(
      SelectSeq(dedup(mondaysOf(SelectSeq(myDates, LAMBDA d : getDay(d) >= 1 /\ getDay(d) <= 5))),
                LAMBDA mon : getWeekFriday(mon) < now))

\* myRank of the athlete in the month
monthRank(uid, month, allScores, allWods) ==
    podiumIndex(computeMonthlyPoints(
                  SelectSeq(allWods, LAMBDA w : monthOf(w.wod_date) = month),
                  SelectSeq(allScores, LAMBDA r : monthOf(r.wod_date) = month)), uid)

\* myRankW of the athlete in the week that starts on mon
weekRank(uid, mon, allScores, allWods) ==
    podiumIndex(computeMonthlyPoints(
                  SelectSeq(allWods,
                            LAMBDA w : w.wod_date >= mon /\ w.wod_date <= getWeekFriday(mon)),
                  SelectSeq(allScores,
                            LAMBDA r : r.wod_date >= mon /\ r.wod_date <= getWeekFriday(mon))),
                uid)

\* app/profile/[id]/page.tsx computeStats, with today as an input
computeStats(uid, myDates, allScores, allWods, now) ==
    LET completedDates == SelectSeq(myDates, LAMBDA d : d < now)
        placements     == sortByDate(dailyLoop(uid, completedDates, 1, allScores, allWods))
        months         == completedMonths(myDates, now)
        weeks          == completedWeeks(myDates, now)
        monthsAt(r)    == SelectSeq(months, LAMBDA m : monthRank(uid, m, allScores, allWods) = r)
        weeksAt(r)     == SelectSeq(weeks, LAMBDA w : weekRank(uid, w, allScores, allWods) = r)
    IN  [wodsLogged |-> Len(myDates),
         dailyGoldDates   |-> datesOfRank(dailyLoop(uid, completedDates, 1, allScores, allWods), 1),
         dailySilverDates |-> datesOfRank(dailyLoop(uid, completedDates, 1, allScores, allWods), 2),
         dailyBronzeDates |-> datesOfRank(dailyLoop(uid, completedDates, 1, allScores, allWods), 3),
         placements    |-> placements,
         avgPlace      |-> average(placements),
         avgPlaceMonth |-> average(SelectSeq(placements,
                                             LAMBDA e : monthOf(e.date) = monthOf(now))),
         monthlyFirstMonths  |-> monthsAt(0),
         monthlySecondMonths |-> monthsAt(1),
         monthlyThirdMonths  |-> monthsAt(2),
         weeklyFirstWeeks  |-> weeksAt(0),
         weeklySecondWeeks |-> weeksAt(1),
         weeklyThirdWeeks  |-> weeksAt(2)]

\* the /me page's computeStats: its monthly and weekly podium loops are those
\* of the profile page over the /me page's computeMonthlyPoints
monthRankMe(uid, month, allScores, allWods) ==
    podiumIndex(computeMonthlyPointsMe(
                  SelectSeq(allWods, LAMBDA w : monthOf(w.wod_date) = month),
                  SelectSeq(allScores, LAMBDA r : monthOf(r.wod_date) = month)), uid)

weekRankMe(uid, mon, allScores, allWods) ==
    podiumIndex(computeMonthlyPointsMe(
                  SelectSeq(allWods,
                            LAMBDA w : w.wod_date >= mon /\ w.wod_date <= getWeekFriday(mon)),
                  SelectSeq(allScores,
                            LAMBDA r : r.wod_date >= mon /\ r.wod_date <= getWeekFriday(mon))),
                uid)

\* the months and weeks behind the six podium counters of the /me page
podiumsMe(uid, myDates, allScores, allWods, now) ==
    [monthlyFirstMonths  |-> SelectSeq(completedMonths(myDates, now),
                               LAMBDA m : monthRankMe(uid, m, allScores, allWods) = 0),
     monthlySecondMonths |-> SelectSeq(completedMonths(myDates, now),
                               LAMBDA m : monthRankMe(uid, m, allScores, allWods) = 1),
     monthlyThirdMonths  |-> SelectSeq(completedMonths(myDates, now),
                               LAMBDA m : monthRankMe(uid, m, allScores, allWods) = 2),
     weeklyFirstWeeks  |-> SelectSeq(completedWeeks(myDates, now),
                             LAMBDA w : weekRankMe(uid, w, allScores, allWods) = 0),
     weeklySecondWeeks |-> SelectSeq(completedWeeks(myDates, now),
                             LAMBDA w : weekRankMe(uid, w, allScores, allWods) = 1),
     weeklyThirdWeeks  |-> SelectSeq(completedWeeks(myDates, now),
                             LAMBDA w : weekRankMe(uid, w, allScores, allWods) = 2)]

\* ───────────────────────── the scores table ───────────────────────────

NoView == [type |-> "UNKNOWN"]

\* what handleSubmit stores for a day of the given type: time_seconds on a
\* TIME day, amrap_rounds and amrap_reps on an AMRAP or CALORIES day; a row
\* submitted while the day had another type holds no value of this type
Value(t, r, e) == [time_seconds |-> t, amrap_rounds |-> r, amrap_reps |-> e]

Absent == Value({}, {}, {})

Row(date, athlete, team, v, rx) ==
    [wod_date |-> date, athlete_id |-> athlete, team_id |-> team,
     time_seconds |-> v.time_seconds, amrap_rounds |-> v.amrap_rounds,
     amrap_reps |-> v.amrap_reps, is_rx |-> rx]

ValueOf(s) == Value(s.time_seconds, s.amrap_rounds, s.amrap_reps)

\* supabase.from('scores').insert(payload), one row of handleSubmit's loop:
\* wod_date references wods, (wod_date, athlete_id) is unique, a guest row
\* (athlete_id null) is a solo row, and the rows of one team_id carry one
\* payload
canInsert(s, max) ==
    /\ Len(scores) < max
    /\ \E i \in 1..Len(wods) : wods[i].wod_date = s.wod_date
    /\ s.athlete_id # Null =>
         ~\E i \in 1..Len(scores) :
              scores[i].wod_date = s.wod_date /\ scores[i].athlete_id = s.athlete_id
    /\ s.team_id # Null =>
         /\ s.athlete_id # Null
         /\ \A i \in 1..Len(scores) :
              scores[i].team_id = s.team_id =>
                /\ scores[i].wod_date = s.wod_date
                /\ ValueOf(scores[i]) = ValueOf(s)
                /\ scores[i].is_rx = s.is_rx

InsertScore(s, max) ==
    /\ canInsert(s, max)
    /\ scores' = Append(scores, s)
    /\ page' = "none"
    /\ view' = NoView
    /\ UNCHANGED <<wods, admin, attendance, today, clock>>

\* the bands computeMonthlyPoints gets for each wod of the window
bandsPerWod(ws, rows) ==
    [k \in 1..Len(ws) |->
       rankForDate(onDate(rows, ws[k].wod_date), getEffectiveType(ws[k]))]

\* computeMonthlyPoints of the profile page on the fetched rows
ProfilePoints ==
    /\ page = "none"
    /\ page' = "profile"
    /\ view' = [points |-> computeMonthlyPoints(wods, scores),
                bands |-> bandsPerWod(wods, scores)]
    /\ UNCHANGED <<wods, scores, admin, attendance, today, clock>>

\* computeMonthlyPoints of the /me page on the fetched rows
MePoints ==
    /\ page = "none"
    /\ page' = "me"
    /\ view' = [points |-> computeMonthlyPointsMe(wods, scores),
                bands |-> bandsPerWod(wods, scores)]
    /\ UNCHANGED <<wods, scores, admin, attendance, today, clock>>

\* computePoints of the monthly standings page on the fetched rows
MonthlyPoints ==
    /\ page = "none"
    /\ page' = "monthly"
    /\ view' = [standings |-> computePoints(wods, scores, profiles)]
    /\ UNCHANGED <<wods, scores, admin, attendance, today, clock>>

\* ───────────────────────── one day of solo scores ──────────────────────

TimeWod(d) == [wod_date |-> d, wod_text |-> "run", workout_type_override |-> "TIME"]

AmrapWod(d) == [wod_date |-> d, wod_text |-> "amrap", workout_type_override |-> "AMRAP"]

Athletes == {"A", "B", "C", "D"}

TimeValues == {Absent, Value({600}, {}, {}), Value({650}, {}, {})}

AmrapValues == {Absent, Value({}, {5}, {12}), Value({}, {5}, {20})}

ValuesFor(type) == IF type = "TIME" THEN TimeValues ELSE AmrapValues

DayRows ==
    {Row(1, a, Null, v, TRUE) :
        a \in Athletes \cup {Null}, v \in ValuesFor(getEffectiveType(wods[1]))}

InitDay ==
    /\ wods \in {<<TimeWod(1)>>, <<AmrapWod(1)>>}
    /\ scores = <<>>
    /\ attendance = {}
    /\ today = 1
    /\ clock = 0
    /\ page = "none"
    /\ admin = [wodText |-> "", typed |-> 0, detectedType |-> "UNKNOWN"]
    /\ view = NoView

NextDay ==
    \/ \E s \in DayRows : InsertScore(s, MaxScores)
    \/ ProfilePoints

SpecDay == InitDay /\ [][NextDay]_vars

\* ───────────────────────── C1 ──────────────────────────────────────────

\* the rows rankForDate ranks on a day of solo rows: the first row of each id
IsRanked(day, i) ==
    ~\E j \in 1..(i - 1) : day[j].athlete_id = day[i].athlete_id

\* x has a strictly better value than y
Better(x, y, type) ==
    IF type = "TIME"
    THEN /\ x.time_seconds # {}
         /\ \/ y.time_seconds = {}
            \/ NumOr(x.time_seconds, 0) < NumOr(y.time_seconds, 0)
    ELSE \/ NumOr(x.amrap_rounds, -1) > NumOr(y.amrap_rounds, -1)
         \/ /\ NumOr(x.amrap_rounds, -1) = NumOr(y.amrap_rounds, -1)
            /\ NumOr(x.amrap_reps, -1) > NumOr(y.amrap_reps, -1)

CompetitionRank(day, i, type) ==
    1 + Cardinality({j \in 1..Len(day) : IsRanked(day, j) /\ Better(day[j], day[i], type)})

MedalsForRank(id, r) ==
    [id |-> id,
     gold   |-> IF r = 1 THEN 1 ELSE 0,
     silver |-> IF r = 2 THEN 1 ELSE 0,
     bronze |-> IF r = 3 THEN 1 ELSE 0,
     total2 |-> IF r = 1 THEN 6 ELSE IF r = 2 THEN 4 ELSE 2]

Scoreable(wod) == getEffectiveType(wod) \notin {"NO_SCORE", "UNKNOWN"}

\* C1: on a scoreable day of solo records the medal of each ranked entry is
\* fixed by its competition rank, 1 + the number of ranked entries with a
\* strictly better value: rank 1 gold (3 points), rank 2 silver (2), rank 3
\* bronze (1), rank 4 or worse nothing.
C1_CompetitionRankMedals ==
    (page = "profile" /\ Len(wods) = 1 /\ Scoreable(wods[1])
        /\ \A i \in 1..Len(scores) : scores[i].team_id = Null) =>
      LET type == getEffectiveType(wods[1])
          day  == onDate(scores, wods[1].wod_date)
      IN  \A i \in 1..Len(day) :
            IsRanked(day, i) =>
              LET r == CompetitionRank(day, i, type)
              IN  IF r <= 3
                  THEN /\ has(view.points, day[i].athlete_id)
                       /\ get(view.points, day[i].athlete_id)
                            = MedalsForRank(day[i].athlete_id, r)
                  ELSE ~has(view.points, day[i].athlete_id)

\* ───────────────────────── C8 ──────────────────────────────────────────

\* the row has no value of the day's type
IsAbsent(s, type) ==
    IF type = "TIME" THEN s.time_seconds = {}
    ELSE s.amrap_rounds = {} /\ s.amrap_reps = {}

BandsHolding(bands, id) == {b \in 1..Len(bands) : \E k \in 1..Len(bands[b]) : bands[b][k] = id}

SurfaceRows ==
    {Row(1, a, Null, v, TRUE) :
        a \in {"A", "B", "C", Null}, v \in {Value({600}, {}, {}), Value({650}, {}, {})}}

InitSurfaces ==
    /\ wods = <<TimeWod(1)>>
    /\ scores = <<>>
    /\ attendance = {}
    /\ today = 1
    /\ clock = 0
    /\ page = "none"
    /\ admin = [wodText |-> "", typed |-> 0, detectedType |-> "UNKNOWN"]
    /\ view = NoView

NextSurfaces ==
    \/ \E s \in SurfaceRows : InsertScore(s, MaxRows)
    \/ ProfilePoints
    \/ MonthlyPoints

SpecSurfaces == InitSurfaces /\ [][NextSurfaces]_vars

StandingsRows ==
    {Row(1, a, Null, v, TRUE) :
        a \in {"A", "B", "C"}, v \in {Value({600}, {}, {}), Value({650}, {}, {})}}

NextStandings ==
    \/ \E s \in StandingsRows : InsertScore(s, MaxRows)
    \/ MonthlyPoints

\* the same day with registered athletes only
SpecStandings == InitSurfaces /\ [][NextStandings]_vars

MedalCounts(map, id) ==
    IF has(map, id)
    THEN <<get(map, id).gold, get(map, id).silver, get(map, id).bronze>>
    ELSE <<0, 0, 0>>

\* C2: the monthly standings page awards every athlete the gold, silver and
\* bronze counts the profile pages award on the same workouts and records.
C2_OnePolicy ==
    page = "monthly" =>
      \A id \in Athletes \cup {Null} :
        MedalCounts(view.standings, id)
          = MedalCounts(computeMonthlyPoints(wods, scores), id)

Registered(rows) == SelectSeq(rows, LAMBDA s : s.athlete_id # Null \/ s.team_id # Null)

\* C3: a guest record (athlete_id null, no team) holds no rank band, changes
\* no registered athlete's medals, and makes no entry in the points map or
\* the standings list.
C3_GuestsExcluded ==
    /\ page = "profile" =>
         /\ \A w \in 1..Len(view.bands) : BandsHolding(view.bands[w], Null) = {}
         /\ ~has(view.points, Null)
         /\ \A id \in Athletes :
              MedalCounts(view.points, id)
                = MedalCounts(computeMonthlyPoints(wods, Registered(scores)), id)
    /\ page = "monthly" =>
         /\ ~has(view.standings, Null)
         /\ \A id \in Athletes :
              MedalCounts(view.standings, id)
                = MedalCounts(computePoints(wods, Registered(scores), profiles), id)

\* ───────────────────────── C4: a day of team scores ────────────────────

Teams == {"T1", "T2"}

TeamRows ==
    {Row(1, a, t, v, TRUE) :
        a \in Athletes, t \in Teams \cup {Null},
        v \in {Value({600}, {}, {}), Value({650}, {}, {})}}

InitTeam ==
    /\ wods = <<TimeWod(1)>>
    /\ scores = <<>>
    /\ attendance = {}
    /\ today = 1
    /\ clock = 0
    /\ page = "none"
    /\ admin = [wodText |-> "", typed |-> 0, detectedType |-> "UNKNOWN"]
    /\ view = NoView

NextTeam ==
    \/ \E s \in TeamRows : InsertScore(s, MaxScores)
    \/ ProfilePoints

SpecTeam == InitTeam /\ [][NextTeam]_vars

RECURSIVE SumLen(_, _)
SumLen(bands, n) == IF n = 0 THEN 0 ELSE Len(bands[n]) + SumLen(bands, n - 1)

\* the first row of the team, or the row itself for a solo row
RepOf(day, i) ==
    IF day[i].team_id = Null THEN i
    ELSE CHOOSE j \in 1..Len(day) :
           /\ day[j].team_id = day[i].team_id
           /\ ~\E k \in 1..(j - 1) : day[k].team_id = day[i].team_id

Entry(map, id) ==
    IF has(map, id) THEN get(map, id)
    ELSE [id |-> id, gold |-> 0, silver |-> 0, bronze |-> 0, total2 |-> 0]

\* C4: every athlete id of an earning band gets the band's medal and its full
\* points; the members of a team get what its representative gets, and each
\* member of a team that no entry beats has one gold and 3 points.
C4_TeamPointsShared ==
    page = "profile" =>
      LET type  == getEffectiveType(wods[1])
          day   == onDate(scores, wods[1].wod_date)
          bands == view.bands[1]
      IN  /\ \A b \in 1..Len(bands) :
                LET pos == 1 + SumLen(bands, b - 1)
                IN  pos <= 3 =>
                      \A k \in 1..Len(bands[b]) :
                        Entry(view.points, bands[b][k]) = MedalsForRank(bands[b][k], pos)
          /\ \A i \in 1..Len(day) :
                day[i].team_id # Null =>
                  LET rep == day[RepOf(day, i)]
                  IN  /\ MedalCounts(view.points, day[i].athlete_id)
                           = MedalCounts(view.points, rep.athlete_id)
                      /\ Entry(view.points, day[i].athlete_id).total2
                           = Entry(view.points, rep.athlete_id).total2
                      /\ (~\E j \in 1..Len(day) : Better(day[RepOf(day, j)], rep, type)) =>
                           Entry(view.points, day[i].athlete_id)
                             = MedalsForRank(day[i].athlete_id, 1)

\* a team of two is first, ahead of a solo athlete, and both members have gold
C4_Witness ==
    /\ page = "profile"
    /\ \E i, j, k \in 1..Len(scores) :
         /\ i # j
         /\ scores[i].team_id = "T1" /\ scores[j].team_id = "T1"
         /\ scores[i].time_seconds = {600}
         /\ scores[k].team_id = Null /\ scores[k].time_seconds = {650}
         /\ Entry(view.points, scores[i].athlete_id) = MedalsForRank(scores[i].athlete_id, 1)
         /\ Entry(view.points, scores[j].athlete_id) = MedalsForRank(scores[j].athlete_id, 1)

\* ───────────────────────── C5, C6: a window of two days ────────────────

NoScoreWod(d) == [wod_date |-> d, wod_text |-> "emom", workout_type_override |-> "NO_SCORE"]

\* a row of wods whose text is empty: wod_text is not null and unchecked
BlankWod(d) == [wod_date |-> d, wod_text |-> "", workout_type_override |-> Null]

WindowRows ==
    {Row(d, a, Null, v.v, v.rx) :
        d \in {1, 2}, a \in {"A", "B", Null},
        v \in {[v |-> Value({600}, {}, {}), rx |-> TRUE],
               [v |-> Value({650}, {}, {}), rx |-> TRUE],
               [v |-> Value({600}, {}, {}), rx |-> FALSE]}}

InitWindow ==
    /\ wods \in {<<TimeWod(1), TimeWod(2)>>, <<TimeWod(1), NoScoreWod(2)>>,
                 <<BlankWod(1), TimeWod(2)>>}
    /\ scores = <<>>
    /\ attendance = {}
    /\ today = 2
    /\ clock = 0
    /\ page = "none"
    /\ admin = [wodText |-> "", typed |-> 0, detectedType |-> "UNKNOWN"]
    /\ view = NoView

NextWindow ==
    \/ \E s \in WindowRows : InsertScore(s, MaxRows)
    \/ MePoints

SpecWindow == InitWindow /\ [][NextWindow]_vars

Range(f) == {f[i] : i \in 1..Len(f)}

ScoreableWods(ws) == SelectSeq(ws, Scoreable)

ScoreableDates(ws) == {ws[i].wod_date : i \in {k \in 1..Len(ws) : Scoreable(ws[k])}}

\* C5: a workout whose effective type is NO_SCORE or UNKNOWN, with whatever
\* records its date has, changes no athlete's gold, silver, bronze or total
\* and adds no entry: the result is that of the window without it.
C5_NoScoreDaysContributeNothing ==
    page = "me" =>
      Range(view.points)
        = Range(computeMonthlyPointsMe(
                  ScoreableWods(wods),
                  SelectSeq(scores, LAMBDA s : s.wod_date \in ScoreableDates(wods))))

\* a day that is not scored holds an Rx record, and the points are not empty
C5_Witness ==
    /\ page = "me"
    /\ Len(view.points) > 0
    /\ \E i \in 1..Len(scores) :
         /\ scores[i].wod_date \notin ScoreableDates(wods)
         /\ scores[i].is_rx
         /\ scores[i].athlete_id # Null
         /\ has(view.points, scores[i].athlete_id)

RxDates(ws, rows, id) ==
    {d \in ScoreableDates(ws) :
       \E i \in 1..Len(rows) :
         rows[i].athlete_id = id /\ rows[i].wod_date = d /\ rows[i].is_rx}

\* C6: the total of an athlete is 3 gold + 2 silver + bronze + 0.5 for each
\* date of the window with a scoreable workout and an Rx row of the athlete;
\* the bonus changes no medal counter and no row without athlete id gets it.
C6_TotalIsMedalsPlusRxBonus ==
    page = "me" =>
      /\ \A k \in 1..Len(view.points) :
           LET e == view.points[k]
           IN  /\ e.total2 = 6 * e.gold + 4 * e.silver + 2 * e.bronze
                     + (IF e.id = Null THEN 0 ELSE Cardinality(RxDates(wods, scores, e.id)))
               /\ <<e.gold, e.silver, e.bronze>>
                     = MedalCounts(computeMonthlyPoints(wods, scores), e.id)
      /\ \A id \in Athletes :
           ~has(view.points, id) =>
             /\ RxDates(wods, scores, id) = {}
             /\ ~has(computeMonthlyPoints(wods, scores), id)

\* an athlete has an Rx row on both days and a guest with an Rx row has a medal
C6_Witness ==
    /\ page = "me"
    /\ \E k \in 1..Len(view.points) :
         /\ view.points[k].id # Null
         /\ Cardinality(RxDates(wods, scores, view.points[k].id)) = 2
         /\ view.points[k].total2
              = 6 * view.points[k].gold + 4 * view.points[k].silver
                + 2 * view.points[k].bronze + 2
    /\ \E i \in 1..Len(scores) : scores[i].athlete_id = Null /\ scores[i].is_rx

\* ───────────────────────── C7: rounds and reps ─────────────────────────

CaloriesWod(d) == [wod_date |-> d, wod_text |-> "max cal", workout_type_override |-> Null]

RoundsRepsValues ==
    {Value({}, {5}, {12}), Value({}, {5}, {20}), Value({}, {6}, {0}),
     Value({}, {1}, {0}), Value({}, {0}, {10001})}

CaloriesValues == {Value({}, {0}, {90}), Value({}, {0}, {120}), Value({}, {0}, {10001})}

AmrapRows ==
    {Row(1, a, Null, v, TRUE) :
        a \in {"A", "B", "C"},
        v \in IF getEffectiveType(wods[1]) = "AMRAP" THEN RoundsRepsValues
              ELSE CaloriesValues}

InitAmrap ==
    /\ wods \in {<<AmrapWod(1)>>, <<CaloriesWod(1)>>}
    /\ scores = <<>>
    /\ attendance = {}
    /\ today = 1
    /\ clock = 0
    /\ page = "none"
    /\ admin = [wodText |-> "", typed |-> 0, detectedType |-> "UNKNOWN"]
    /\ view = NoView

NextAmrap ==
    \/ \E s \in AmrapRows : InsertScore(s, MaxRows)
    \/ ProfilePoints

SpecAmrap == InitAmrap /\ [][NextAmrap]_vars

\* C7: with non-negative rounds and reps, a record with more rounds is ranked
\* strictly ahead of a record with fewer rounds whatever their reps, and with
\* equal rounds the record with more reps is strictly ahead; on a CALORIES
\* day (rounds 0) the order is descending reps.
C7_RoundsDominateReps ==
    page = "profile" =>
      LET day   == onDate(scores, wods[1].wod_date)
          bands == view.bands[1]
      IN  \A i, j \in 1..Len(day) :
            Better(day[i], day[j], "AMRAP") =>
              \A bj \in BandsHolding(bands, day[j].athlete_id) :
                \E bi \in BandsHolding(bands, day[i].athlete_id) : bi < bj

\* ───────────────────────── C11: a month of standings ──────────────────

\* the clock passes midnight (Asia/Dubai), and the pages are loaded anew
Midnight(last) ==
    /\ today < last
    /\ today' = today + 1
    /\ page' = "none"
    /\ view' = NoView
    /\ UNCHANGED <<wods, scores, attendance, admin, clock>>

\* handleSubmit writes wod_date: today
InsertToday(s, max) ==
    /\ s.wod_date = today
    /\ InsertScore(s, max)

\* the month is three days of two athletes, or two days of three athletes
\* with three different times
MonthRows ==
    IF Len(wods) = 3
    THEN {Row(d, a, Null, Value({t}, {}, {}), TRUE) :
            d \in 1..3, a \in {"A", "B"}, t \in {600, 650}}
    ELSE {Row(d, a, Null, Value({t}, {}, {}), TRUE) :
            d \in 1..2, a \in {"A", "B", "C"}, t \in {600, 650, 700}}

InitMonth ==
    /\ wods \in {<<TimeWod(1), TimeWod(2), TimeWod(3)>>, <<TimeWod(1), TimeWod(2)>>}
    /\ scores = <<>>
    /\ attendance = {}
    /\ today = 1
    /\ clock = 0
    /\ page = "none"
    /\ admin = [wodText |-> "", typed |-> 0, detectedType |-> "UNKNOWN"]
    /\ view = NoView

NextMonth ==
    \/ \E s \in MonthRows : InsertToday(s, MaxMonthRows)
    \/ Midnight(Len(wods))
    \/ MonthlyPoints

SpecMonth == InitMonth /\ [][NextMonth]_vars

\* the place of a display name in ascending order
NamePlace(n) == CHOOSE i \in 1..4 : <<"Alice", "Bob", "Carol", "Unknown">>[i] = n

\* row x is not worse than row y: more points, or as many and more gold, or
\* ... silver, or ... bronze, or the same medals and a name that is not later
NotWorse(x, y) ==
    LET tx == 3 * x.gold + 2 * x.silver + x.bronze
        ty == 3 * y.gold + 2 * y.silver + y.bronze
    IN  \/ tx > ty
        \/ tx = ty /\ x.gold > y.gold
        \/ tx = ty /\ x.gold = y.gold /\ x.silver > y.silver
        \/ tx = ty /\ x.gold = y.gold /\ x.silver = y.silver /\ x.bronze > y.bronze
        \/ /\ tx = ty /\ x.gold = y.gold /\ x.silver = y.silver /\ x.bronze = y.bronze
           /\ NamePlace(x.display_name) <= NamePlace(y.display_name)

\* C11: the standings computePoints returns are ordered by descending total,
\* then gold, then silver, then bronze, then ascending display name: of two
\* adjacent rows the earlier is not worse; the total of a row is
\* 3 gold + 2 silver + bronze.
C11_StandingsOrdered ==
    page = "monthly" =>
      /\ \A i \in 1..(Len(view.standings) - 1) :
           NotWorse(view.standings[i], view.standings[i + 1])
      /\ \A i \in 1..Len(view.standings) :
           view.standings[i].total2
             = 2 * (3 * view.standings[i].gold + 2 * view.standings[i].silver
                    + view.standings[i].bronze)

\* 2 gold + 1 silver (8 points) is listed before 1 gold + 2 silver (7)
C11_Witness ==
    /\ page = "monthly"
    /\ Len(view.standings) = 2
    /\ view.standings[1].gold = 2 /\ view.standings[1].silver = 1
    /\ view.standings[1].total2 = 16
    /\ view.standings[2].gold = 1 /\ view.standings[2].silver = 2
    /\ view.standings[2].total2 = 14

\* ───────────────────────── C12: the statistics of a profile ────────────

\* .eq('athlete_id', id).order('wod_date', { ascending: false }), as dates
RECURSIVE sortDescending(_)
sortDescending(xs) ==
    IF Len(xs) = 0 THEN <<>>
    ELSE LET n    == Len(xs)
             acc  == sortDescending(SubSeq(xs, 1, n - 1))
             x    == xs[n]
             keep == Cardinality({i \in 1..Len(acc) : acc[i] >= x})
         IN  SubSeq(acc, 1, keep) \o <<x>> \o SubSeq(acc, keep + 1, Len(acc))

\* myDates of the profile page: the dates of the athlete's score rows
myDatesOf(rows, id) ==
    LET mine == SelectSeq(rows, LAMBDA r : r.athlete_id = id)
    IN  dedup(sortDescending([i \in 1..Len(mine) |-> mine[i].wod_date]))

inDates(dates, d) == \E i \in 1..Len(dates) : dates[i] = d

\* the attended set of the profile page: attendance markers and myDates
attendedSetOf(marks, rows, id) ==
    {m.wod_date : m \in {x \in marks : x.athlete_id = id}}
      \cup {myDatesOf(rows, id)[i] : i \in 1..Len(myDatesOf(rows, id))}

\* the streak the profile page shows: 0, the initial state, when the athlete
\* has no score row and the effect returns early
streakShown(marks, rows, id, now) ==
    IF Len(myDatesOf(rows, id)) = 0 THEN 0
    ELSE computeStreak(attendedSetOf(marks, rows, id), now)

\* the effect of the profile page's useEffect for athlete id
ProfileStats(id) ==
    /\ page \in {"none", "home"}
    /\ LET myDates == myDatesOf(scores, id)
       IN  view' = IF Len(myDates) = 0
                   THEN [uid |-> id, now |-> today, myDates |-> myDates, streak |-> 0]
                   ELSE [uid |-> id,
                         now |-> today,
                         myDates |-> myDates,
                         wodRows |-> SelectSeq(wods, LAMBDA w : inDates(myDates, w.wod_date)),
                         allScoreRows |->
                           SelectSeq(scores, LAMBDA r : inDates(myDates, r.wod_date)),
                         stats |-> computeStats(
                                     id, myDates,
                                     SelectSeq(scores, LAMBDA r : inDates(myDates, r.wod_date)),
                                     SelectSeq(wods, LAMBDA w : inDates(myDates, w.wod_date)),
                                     today),
                         streak |-> streakShown(attendance, scores, id, today)]
    /\ page' = "stats"
    /\ UNCHANGED <<wods, scores, attendance, today, admin, clock>>

StatsRows ==
    {Row(today, a, Null, Value({t}, {}, {}), TRUE) : a \in {"A", "B"}, t \in {600, 650}}

\* workouts on Friday 5, Monday 8 and Thursday 11; the second week ends on
\* Friday 12 and the second month begins with day 11
InitStats ==
    /\ wods = <<TimeWod(5), TimeWod(8), TimeWod(11)>>
    /\ scores = <<>>
    /\ attendance = {}
    /\ today = 5
    /\ clock = 0
    /\ page = "none"
    /\ admin = [wodText |-> "", typed |-> 0, detectedType |-> "UNKNOWN"]
    /\ view = NoView

NextStats ==
    \/ \E s \in StatsRows : InsertToday(s, MaxMonthRows)
    \/ Midnight(13)
    \/ \E id \in {"A", "B"} : ProfileStats(id)

SpecStats == InitStats /\ [][NextStats]_vars

\* the sequences that list the elements of seq in another order
Reorderings(seq) ==
    {[i \in 1..Len(seq) |-> seq[f[i]]] :
        f \in {g \in [1..Len(seq) -> 1..Len(seq)] :
                 \A i, j \in 1..Len(seq) : g[i] = g[j] => i = j}}

Podiums(st) ==
    <<Len(st.weeklyFirstWeeks), Len(st.weeklySecondWeeks), Len(st.weeklyThirdWeeks),
      Len(st.monthlyFirstMonths), Len(st.monthlySecondMonths), Len(st.monthlyThirdMonths)>>

\* C12: the weekly and monthly podium counters of computeStats depend on the
\* set of workouts and score records only: any other order of the two input
\* arrays gives the same six counters.
C12_PodiumsOrderFree ==
    (page = "stats" /\ Len(view.myDates) > 0) =>
      \A rows \in Reorderings(view.allScoreRows), ws \in Reorderings(view.wodRows) :
        Podiums(computeStats(view.uid, view.myDates, rows, ws, view.now))
          = Podiums(view.stats)

\* ───────────────────────── C17: finished periods only ────────────────

SeqRange(seq) == {seq[i] : i \in 1..Len(seq)}

DailyDates(st) ==
    SeqRange(st.dailyGoldDates) \cup SeqRange(st.dailySilverDates)
      \cup SeqRange(st.dailyBronzeDates) \cup {e.date : e \in SeqRange(st.placements)}

PodiumWeeks(st) ==
    SeqRange(st.weeklyFirstWeeks) \cup SeqRange(st.weeklySecondWeeks)
      \cup SeqRange(st.weeklyThirdWeeks)

PodiumMonths(st) ==
    SeqRange(st.monthlyFirstMonths) \cup SeqRange(st.monthlySecondMonths)
      \cup SeqRange(st.monthlyThirdMonths)

\* C17: computeStats counts finished periods only: every date behind a daily
\* medal or a placement is before today, every week behind a weekly podium
\* has its Friday before today, and every month behind a monthly podium is
\* before the month of today.
C17_OnlyFinishedPeriods ==
    (page = "stats" /\ Len(view.myDates) > 0) =>
      /\ \A d \in DailyDates(view.stats) : d < view.now
      /\ \A mon \in PodiumWeeks(view.stats) : getWeekFriday(mon) < view.now
      /\ \A m \in PodiumMonths(view.stats) : m < monthOf(view.now)

\* on Thursday 11, the first day of the second month, an athlete with scores
\* on days 5, 8 and 11 has two placements, one weekly and one monthly podium
C17_Witness ==
    /\ page = "stats"
    /\ view.now = 11
    /\ view.myDates = <<11, 8, 5>>
    /\ DailyDates(view.stats) = {5, 8}
    /\ PodiumWeeks(view.stats) = {1}
    /\ PodiumMonths(view.stats) = {0}

\* ───────────────────────── C18: placements past the medals ───────────

PlacementRows ==
    {Row(today, a, Null, Value({t}, {}, {}), TRUE) :
        a \in {"A", "B", "C", "D"}, t \in {600, 610, 620, 630}}

\* one workout for time on Monday 1
InitPlacement ==
    /\ wods = <<TimeWod(1)>>
    /\ scores = <<>>
    /\ attendance = {}
    /\ today = 1
    /\ clock = 0
    /\ page = "none"
    /\ admin = [wodText |-> "", typed |-> 0, detectedType |-> "UNKNOWN"]
    /\ view = NoView

NextPlacement ==
    \/ \E s \in PlacementRows : InsertToday(s, MaxMonthRows)
    \/ Midnight(2)
    \/ \E id \in {"A", "B", "C", "D"} : ProfileStats(id)

SpecPlacement == InitPlacement /\ [][NextPlacement]_vars

\* the rows of the date of other competitors with a faster time than mine
Beating(rows, uid, date) ==
    LET day  == onDate(rows, date)
        mine == SelectSeq(day, LAMBDA r : r.athlete_id = uid)[1]
    IN  {i \in 1..Len(day) :
           /\ day[i].athlete_id # uid
           /\ day[i].time_seconds # {}
           /\ \A t \in day[i].time_seconds : \A u \in mine.time_seconds : t < u}

InNoBand(rows, uid, date) ==
    LET bands == rankForDate(onDate(rows, date), "TIME")
    IN  \A b \in 1..Len(bands) : ~includes(bands[b], uid)

\* C18: on a completed date where the athlete has a record and is in no
\* medal band, the recorded placement is min(10, 1 + the number of other
\* competitors who beat the athlete), counted by competitor or by distinct
\* value; beaten by exactly three others, the athlete is at rank 4.
C18_PlacementIsOnePlusBeaten ==
    (page = "stats" /\ Len(view.myDates) > 0) =>
      \A k \in 1..Len(view.stats.placements) :
        LET e   == view.stats.placements[k]
            day == onDate(view.allScoreRows, e.date)
            b   == Beating(view.allScoreRows, view.uid, e.date)
        IN  InNoBand(view.allScoreRows, view.uid, e.date) =>
              \/ e.rank = min(10, 1 + Cardinality(b))
              \/ e.rank = min(10, 1 + Cardinality({day[i].time_seconds : i \in b}))

\* ───────────────────────── C19: average placements ───────────────────

\* avg is null, or the mean sum / count of the ranks of ps, from 1 to 10
MeanOf(avg, ps) ==
    \A m \in avg :
      /\ m.count = Len(ps)
      /\ m.count > 0
      /\ m.sum = sumRanks(ps)
      /\ m.sum > 0
      /\ m.count <= m.sum
      /\ m.sum <= 10 * m.count

\* C19: avgPlace is null exactly when the placement trend is empty and
\* avgPlaceMonth is null exactly when the trend has no entry in the month of
\* today; neither is 0, and each is the mean of the ranks it covers, between
\* 1 and 10.
C19_AveragesNullOrMean ==
    (page = "stats" /\ Len(view.myDates) > 0) =>
      LET trend == view.stats.placements
          month == SelectSeq(trend, LAMBDA e : monthOf(e.date) = monthOf(view.now))
      IN  /\ (view.stats.avgPlace = {}) <=> (Len(trend) = 0)
          /\ (view.stats.avgPlaceMonth = {}) <=> (Len(month) = 0)
          /\ Cardinality(view.stats.avgPlace) <= 1
          /\ Cardinality(view.stats.avgPlaceMonth) <= 1
          /\ MeanOf(view.stats.avgPlace, trend)
          /\ MeanOf(view.stats.avgPlaceMonth, month)

\* on the first day of the second month, a first and a second place of the
\* first month give the mean 3 / 2 and no mean of the month
C19_Witness ==
    /\ page = "stats"
    /\ view.now = 11
    /\ Len(view.myDates) > 0
    /\ view.stats.avgPlace = {[sum |-> 3, count |-> 2]}
    /\ view.stats.avgPlaceMonth = {}

\* ───────────────────────── C20: rankForDate on any day ────────────────

BandRows ==
    {Row(1, a, Null, Value({t}, {}, {}), TRUE) :
        a \in {"A", "B", "C", "D"}, t \in {600, 610, 620, 630}}

\* rankForDate of the profile page and of the monthly page on the rows of the
\* day and the type of its workout
RankDay ==
    /\ page = "none"
    /\ page' = "bands"
    /\ view' = [type |-> getEffectiveType(wods[1]),
                rows |-> onDate(scores, 1),
                profile |-> rankForDate(onDate(scores, 1), getEffectiveType(wods[1])),
                monthly |-> monthlyRankForDate(onDate(scores, 1), getEffectiveType(wods[1]))]
    /\ UNCHANGED <<wods, scores, admin, attendance, today, clock>>

\* one day whose workout is for time, an AMRAP (the stored times are then
\* absent values), without score, or of unknown type
InitBands ==
    /\ wods \in {<<TimeWod(1)>>, <<AmrapWod(1)>>, <<NoScoreWod(1)>>, <<BlankWod(1)>>}
    /\ scores = <<>>
    /\ attendance = {}
    /\ today = 1
    /\ clock = 0
    /\ page = "none"
    /\ admin = [wodText |-> "", typed |-> 0, detectedType |-> "UNKNOWN"]
    /\ view = NoView

NextBands ==
    \/ \E s \in BandRows : InsertScore(s, MaxMonthRows)
    \/ RankDay

SpecBands == InitBands /\ [][NextBands]_vars

\* bands is a list of at most three bands, empty without a scoreable type or
\* without rows, and the one band of the one athlete for a single row
WellFormedBands(bands, rows, type) ==
    /\ bands \in Seq(Seq({"A", "B", "C", "D"}))
    /\ Len(bands) <= 3
    /\ \A b \in 1..Len(bands) : Len(bands[b]) >= 1
    /\ (type \in {"NO_SCORE", "UNKNOWN"} \/ Len(rows) = 0) => bands = <<>>
    /\ (type \notin {"NO_SCORE", "UNKNOWN"} /\ Len(rows) = 1)
         => bands = <<<<rows[1].athlete_id>>>>

\* C20: rankForDate, on the profile page and on the monthly page, returns a
\* list of at most three bands: the empty list when the type is NO_SCORE or
\* UNKNOWN or there is no record, and one band of size 1 for a single solo
\* record.
C20_AtMostThreeBands ==
    page = "bands" =>
      /\ WellFormedBands(view.profile, view.rows, view.type)
      /\ WellFormedBands(view.monthly, view.rows, view.type)

\* four athletes with four times: three bands of one athlete on both pages
C20_Witness ==
    /\ page = "bands"
    /\ view.type = "TIME"
    /\ Len(view.rows) = 4
    /\ Cardinality({view.rows[i].time_seconds : i \in 1..4}) = 4
    /\ Len(view.profile) = 3
    /\ Len(view.monthly) = 3
    /\ view.profile = view.monthly

\* ───────────────────────── C21: representatives of a day ─────────────

\* team rows, solo rows and guest rows (athlete_id null) of one day
RepRows ==
    {Row(1, a, t, v, TRUE) :
        a \in {"A", "B", "C"}, t \in Teams \cup {Null},
        v \in {Value({600}, {}, {}), Value({650}, {}, {})}}
      \cup {Row(1, Null, Null, v, TRUE) : v \in {Value({600}, {}, {}), Value({650}, {}, {})}}

NextReps ==
    \/ \E s \in RepRows : InsertScore(s, MaxScores)
    \/ RankDay

SpecReps == InitTeam /\ [][NextReps]_vars

\* the rows that stand for an entry: the first row of each team id and the
\* first solo row of each athlete id
FirstSeen(day) ==
    {i \in 1..Len(day) :
       ~\E j \in 1..(i - 1) :
          IF day[i].team_id # Null
          THEN day[j].team_id = day[i].team_id
          ELSE day[j].team_id = Null /\ day[j].athlete_id = day[i].athlete_id}

\* the athlete ids of the entries whose value is the b-th best value
EntriesAt(day, b) ==
    LET at == {i \in FirstSeen(day) :
                 Cardinality({day[j].time_seconds :
                                j \in {k \in FirstSeen(day) : Better(day[k], day[i], "TIME")}})
                   = b - 1}
    IN  {day[j].athlete_id :
           j \in {k \in 1..Len(day) :
                    \E i \in at : IF day[i].team_id # Null
                                  THEN day[k].team_id = day[i].team_id
                                  ELSE k = i}}

\* C21: rankForDate ranks the first row of each team id and the first solo
\* row of each athlete id and no other row; the band of a team holds every
\* athlete id with a row of that team id, and no band holds an id twice.
C21_OneRepresentativePerEntry ==
    (page = "bands" /\ view.type = "TIME") =>
      \A b \in 1..Len(view.profile) :
        /\ Range(view.profile[b]) = EntriesAt(view.rows, b)
        /\ Cardinality(Range(view.profile[b])) = Len(view.profile[b])

\* a team of two ahead of two guest rows, the second of which is not ranked
C21_Witness ==
    /\ page = "bands"
    /\ view.type = "TIME"
    /\ Len(view.rows) = 4
    /\ \E t \in Teams : Cardinality({i \in 1..4 : view.rows[i].team_id = t}) = 2
    /\ \E i, j \in 1..4 :
         /\ i < j
         /\ view.rows[i].athlete_id = Null /\ view.rows[j].athlete_id = Null
         /\ view.rows[i].time_seconds = {650} /\ view.rows[j].time_seconds = {600}
    /\ Len(view.profile) = 2
    /\ Len(view.profile[1]) = 2
    /\ view.profile[2] = <<Null>>

\* ───────────────────────── C22: a team is one position ───────────────

\* the athlete ids of the entry that row i stands for
MembersOf(day, i) ==
    IF day[i].team_id = Null THEN {day[i].athlete_id}
    ELSE {day[k].athlete_id : k \in {j \in 1..Len(day) : day[j].team_id = day[i].team_id}}

\* C22: when the entries of a day (teams and solo athletes) have pairwise
\* distinct values, rankForDate returns one band for each of the first three
\* entries, and computeMonthlyPoints gives gold to the members of the first,
\* silver to those of the second and bronze to those of the third, whatever
\* the number of members of a team.
C22_TeamIsOnePosition ==
    page = "profile" =>
      LET day     == onDate(scores, wods[1].wod_date)
          entries == FirstSeen(day)
          bands   == view.bands[1]
      IN  (\A i, j \in entries : i # j => day[i].time_seconds # day[j].time_seconds) =>
            /\ Len(bands) = (IF Cardinality(entries) < 3 THEN Cardinality(entries) ELSE 3)
            /\ \A i \in entries :
                 LET pos == 1 + Cardinality({j \in entries : Better(day[j], day[i], "TIME")})
                 IN  pos <= 3 =>
                       \A id \in MembersOf(day, i) :
                         Entry(view.points, id) = MedalsForRank(id, pos)

\* ───────────────────────── C23: daily medals of the two functions ────

\* gold, silver and bronze computeStats credits for the date
StatsMedal(st, d) ==
    <<IF d \in SeqRange(st.dailyGoldDates) THEN 1 ELSE 0,
      IF d \in SeqRange(st.dailySilverDates) THEN 1 ELSE 0,
      IF d \in SeqRange(st.dailyBronzeDates) THEN 1 ELSE 0>>

\* the rank computeStats records with the medal, 0 without a medal
StatsMedalRank(st, d) ==
    IF \E e \in SeqRange(st.placements) : e.date = d /\ e.rank <= 3
    THEN (CHOOSE e \in SeqRange(st.placements) : e.date = d /\ e.rank <= 3).rank
    ELSE 0

\* C23: on every completed scoreable date the medal computeStats credits to
\* the athlete, and the rank 1, 2 or 3 recorded with it, is the medal that
\* computeMonthlyPoints awards the athlete for that date.
C23_DailyMedalsAgree ==
    (page = "stats" /\ Len(view.myDates) > 0) =>
      \A k \in 1..Len(view.myDates) :
        LET d      == view.myDates[k]
            points == computeMonthlyPoints(
                        SelectSeq(view.wodRows, LAMBDA w : w.wod_date = d),
                        onDate(view.allScoreRows, d))
            medal  == MedalCounts(points, view.uid)
        IN  d < view.now =>
              /\ StatsMedal(view.stats, d) = medal
              /\ StatsMedalRank(view.stats, d)
                   = (IF medal[1] = 1 THEN 1 ELSE IF medal[2] = 1 THEN 2
                      ELSE IF medal[3] = 1 THEN 3 ELSE 0)

\* ───────────────────────── C24: rankForDate on any list of rows ──────

\* the rows a list may hold: the table keeps (wod_date, athlete_id) unique,
\* the function takes any list
ListRows ==
    {Row(1, a, t, v, TRUE) :
        a \in {"A", "B"}, t \in {"T1", Null},
        v \in {Value({600}, {}, {}), Value({650}, {}, {})}}

\* the lists of up to n rows
RECURSIVE ListsUpTo(_)
ListsUpTo(n) ==
    IF n = 0 THEN {<<>>}
    ELSE ListsUpTo(n - 1)
           \cup {Append(l, r) : l \in {x \in ListsUpTo(n - 1) : Len(x) = n - 1}, r \in ListRows}

InitLists ==
    /\ wods = <<TimeWod(1)>>
    /\ scores = <<>>
    /\ attendance = {}
    /\ today = 1
    /\ clock = 0
    /\ page = "none"
    /\ admin = [wodText |-> "", typed |-> 0, detectedType |-> "UNKNOWN"]
    /\ view \in {[rows |-> l] : l \in ListsUpTo(MaxRows)}

\* rankForDate and computeMonthlyPoints called on the list
RankList ==
    /\ page = "none"
    /\ page' = "lists"
    /\ view' = [rows |-> view.rows,
                bands |-> rankForDate(view.rows, getEffectiveType(wods[1])),
                points |-> computeMonthlyPoints(wods, view.rows)]
    /\ UNCHANGED <<wods, scores, admin, attendance, today, clock>>

SpecLists == InitLists /\ [][RankList]_vars

ProfilePlace(st, m) ==
    IF m \in SeqRange(st.monthlyFirstMonths) THEN 1
    ELSE IF m \in SeqRange(st.monthlySecondMonths) THEN 2
    ELSE IF m \in SeqRange(st.monthlyThirdMonths) THEN 3
    ELSE 0

\* the row position of the athlete in the standings when it is 1, 2 or 3
\* with a positive total, or 0
StandingsPlace(standings, id) ==
    IF \E i \in 1..Len(standings) :
         i <= 3 /\ standings[i].id = id /\ standings[i].total2 > 0
    THEN CHOOSE i \in 1..Len(standings) : standings[i].id = id
    ELSE 0

\* C25: for every completed month in which the athlete was active, the
\* monthly podium place the profile page counts for the athlete is the
\* athlete's row position in the standings computePoints makes from all the
\* workouts and score records of the month.
C25_PodiumIsStandingsRow ==
    (page = "stats" /\ Len(view.myDates) > 0) =>
      \A k \in 1..Len(view.myDates) :
        LET m == monthOf(view.myDates[k])
        IN  m < monthOf(view.now) =>
              ProfilePlace(view.stats, m)
                = StandingsPlace(
                    computePoints(SelectSeq(wods, LAMBDA w : monthOf(w.wod_date) = m),
                                  SelectSeq(scores, LAMBDA r : monthOf(r.wod_date) = m),
                                  profiles),
                    view.uid)

\* ───────────────────────── C26: the two profile pages ────────────────

\* rows of today, Rx or scaled
RxRows ==
    {Row(today, a, Null, Value({t}, {}, {}), rx) :
        a \in {"A", "B"}, t \in {600, 650}, rx \in BOOLEAN}

\* workouts on Friday 5 and Monday 8 of the first month
InitRx ==
    /\ wods = <<TimeWod(5), TimeWod(8)>>
    /\ scores = <<>>
    /\ attendance = {}
    /\ today = 5
    /\ clock = 0
    /\ page = "none"
    /\ admin = [wodText |-> "", typed |-> 0, detectedType |-> "UNKNOWN"]
    /\ view = NoView

NextRx ==
    \/ \E s \in RxRows : InsertToday(s, MaxMonthRows)
    \/ Midnight(13)
    \/ \E id \in {"A", "B"} : ProfileStats(id)

SpecRx == InitRx /\ [][NextRx]_vars

\* C26: on the same athlete, workouts and score records, computeStats of
\* the /me page and computeStats of the /profile/[id] page return the same
\* weekly and monthly podium counters.
C26_ProfilePagesAgree ==
    (page = "stats" /\ Len(view.myDates) > 0) =>
      Podiums(podiumsMe(view.uid, view.myDates, view.allScoreRows, view.wodRows, view.now))
        = Podiums(view.stats)

\* ───────────────────────── C14, C15: streaks ──────────────────────────

\* the attendance markers of one athlete: any of the last days up to today
\* with a run of consecutive days before them, or every day of a long run
MarkedDays(now) ==
    {S \cup ((now - RecentDays + 1 - n)..(now - RecentDays)) :
        S \in SUBSET ((now - RecentDays + 1)..now), n \in 0..MaxRun}
      \cup {(now - LongRun)..now}

InitStreak ==
    /\ wods = <<>>
    /\ scores = <<>>
    /\ today \in 15..21
    /\ clock = 0
    /\ attendance \in {{[athlete_id |-> "A", wod_date |-> d] : d \in S} : S \in MarkedDays(today)}
    /\ page = "none"
    /\ admin = [wodText |-> "", typed |-> 0, detectedType |-> "UNKNOWN"]
    /\ view = NoView

\* computeStreak applied to the markers of the athlete
ApplyStreak(id) ==
    /\ page = "none"
    /\ page' = "streak"
    /\ view' = [uid |-> id,
                streak |-> computeStreak({m.wod_date : m \in {x \in attendance : x.athlete_id = id}},
                                         today),
                iterations |-> streakLoop({m.wod_date : m \in {x \in attendance : x.athlete_id = id}},
                                          today).i]
    /\ UNCHANGED <<wods, scores, attendance, today, admin, clock>>

NextStreak == ApplyStreak("A")

SpecStreak == InitStreak /\ [][NextStreak]_vars

IsWeekday(d) == getDay(d) # 0 /\ getDay(d) # 6

Max(S) == CHOOSE x \in S : \A y \in S : y <= x

Marked(id) == {m.wod_date : m \in {x \in attendance : x.athlete_id = id}}

Min(S) == CHOOSE x \in S : \A y \in S : x <= y

\* the weekdays from lo to today that follow the last weekday missing from
\* attended, an absent today not counting as missing; no day more than three
\* days before the first attended day needs to be looked at
RunOfWeekdays(attended, now, lo) ==
    LET start == IF IsWeekday(now) /\ now \notin attended THEN now - 1 ELSE now
        low   == IF attended = {} THEN start
                 ELSE IF Min(attended) - 3 > lo THEN Min(attended) - 3 ELSE lo
        miss  == {x \in low..start : IsWeekday(x) /\ x \notin attended}
        from  == IF miss = {} THEN low ELSE Max(miss) + 1
    IN  Cardinality({d \in from..start : IsWeekday(d)})

\* C14 as stated: the streak is the number of consecutive attended weekdays
\* walking backward from today, up to the first absent weekday, an absent
\* today not stopping the walk.
C14_StreakIsRunOfWeekdays ==
    page = "streak" =>
      view.streak = RunOfWeekdays(Marked(view.uid), today, today - LongRun - 3)

\* C14: the streak is the number of consecutive attended weekdays walking
\* backward from today, up to the first absent weekday, an absent today not
\* stopping the walk, among the 365 days that end today.
C14_StreakWithinYear ==
    page = "streak" =>
      view.streak = RunOfWeekdays(Marked(view.uid), today, today - StreakDays + 1)

\* today is a Friday, the last 10 business days are attended, the 11th back
\* is not, and the streak is 10
C14_Witness ==
    /\ page = "streak"
    /\ getDay(today) = 5
    /\ \A d \in (today - 13)..today : IsWeekday(d) => d \in Marked(view.uid)
    /\ (today - 14) \notin Marked(view.uid)
    /\ view.streak = 10

Weekend(lo, hi) == {d \in lo..hi : ~IsWeekday(d)}

\* C15: Saturdays and Sundays neither break nor extend a streak: the streak
\* is the one of the attended set without its weekend days, and the one of
\* the attended set with every weekend day of the last weeks added.
C15_WeekendsIgnored ==
    page = "streak" =>
      /\ view.streak
           = computeStreak({d \in Marked(view.uid) : IsWeekday(d)}, today)
      /\ view.streak
           = computeStreak(Marked(view.uid) \cup Weekend(today - 3 * RecentDays, today), today)

\* a streak of 6 that spans a weekend without markers
C15_Witness ==
    /\ page = "streak"
    /\ view.streak = 6
    /\ \E d \in (today - RecentDays + 1)..today :
         ~IsWeekday(d) /\ d \notin Marked(view.uid)
    /\ \E d \in (today - RecentDays + 1)..today :
         ~IsWeekday(d) /\ d < today /\ d > today - 6 /\ d \notin Marked(view.uid)

\* the weekdays among the 365 calendar days that end on day now
WeekdaysOfYear(now) == Cardinality({d \in (now - StreakDays + 1)..now : IsWeekday(d)})

\* C30: the loop of computeStreak ends after at most 365 iterations, and
\* the streak never exceeds the number of weekdays among the 365 calendar
\* days that end today, however many dates the attended set holds.
C30_StreakLoopBounded ==
    page = "streak" =>
      /\ view.iterations <= StreakDays
      /\ view.streak <= WeekdaysOfYear(today)

\* more than 365 days in a row are attended: the loop runs its 365
\* iterations and the streak is every weekday of these 365 days
C30_Witness ==
    /\ page = "streak"
    /\ Cardinality(Marked(view.uid)) > StreakDays
    /\ view.iterations = StreakDays
    /\ view.streak = WeekdaysOfYear(today)
    /\ view.streak >= 260

\* ───────────────────────── C16: the streak of the home page ───────────

\* the attended set of the home page: the attendance markers and today
homeStreak(marks, me, now) ==
    computeStreak({m.wod_date : m \in {x \in marks : x.athlete_id = me}} \cup {now}, now)

\* handleSubmit of the home page for a solo workout: me enters a score for
\* forAthlete (me, another member, or a guest: Null), attendance is logged
\* for me, and the streak of me is announced
handleSubmit(me, forAthlete, v, max) ==
    LET s == Row(today, forAthlete, Null, v, TRUE)
    IN  /\ canInsert(s, max)
        /\ scores' = Append(scores, s)
        /\ attendance' = attendance \cup {[athlete_id |-> me, wod_date |-> today]}
        /\ page' = "home"
        /\ view' = [uid |-> me,
                    streak |-> homeStreak(
                                 attendance \cup {[athlete_id |-> me, wod_date |-> today]},
                                 me, today)]
        /\ UNCHANGED <<wods, today, admin, clock>>

\* handleAttendance of the home page
handleAttendance(me) ==
    /\ attendance' = attendance \cup {[athlete_id |-> me, wod_date |-> today]}
    /\ page' = "home"
    /\ view' = [uid |-> me,
                streak |-> homeStreak(
                             attendance \cup {[athlete_id |-> me, wod_date |-> today]},
                             me, today)]
    /\ UNCHANGED <<wods, scores, today, admin, clock>>

\* workouts on Monday 1, Tuesday 2 and Wednesday 3
InitAttend ==
    /\ wods = <<TimeWod(1), TimeWod(2), TimeWod(3)>>
    /\ scores = <<>>
    /\ attendance = {}
    /\ today = 1
    /\ clock = 0
    /\ page = "none"
    /\ admin = [wodText |-> "", typed |-> 0, detectedType |-> "UNKNOWN"]
    /\ view = NoView

NextAttend ==
    \/ \E me \in {"A", "B"}, for \in {"A", "B", Null} :
         handleSubmit(me, for, Value({600}, {}, {}), MaxRows)
    \/ \E me \in {"A", "B"} : handleAttendance(me)
    \/ Midnight(3)
    \/ \E id \in {"A", "B"} : ProfileStats(id)

SpecAttend == InitAttend /\ [][NextAttend]_vars

\* C16: the streak the home page announces to an athlete after a score
\* submission or an attendance click is the streak the profile pages show
\* for that athlete on the same data and day, the attended set being the
\* union of the attendance markers and the dates of the score records.
C16_OneStreak ==
    page = "home" =>
      /\ view.streak = streakShown(attendance, scores, view.uid, today)
      /\ view.streak = computeStreak(attendedSetOf(attendance, scores, view.uid), today)

\* ───────────────────────── the home page: teams and edits ───────────

\* 30 * 60 * 1000 ms, in minutes
EditWindow == 30

MaxClock == 40

Members == {"A", "B"}

TeamIdPool == <<"T1", "T2", "T3">>

\* a workout for time with its is_team flag
HomeWod(d, isTeam) ==
    [wod_date |-> d, wod_text |-> "run", workout_type_override |-> "TIME",
     is_team |-> isTeam]

\* crypto.randomUUID(): an id that no row holds
randomUUID(rows) ==
    TeamIdPool[CHOOSE k \in 1..Len(TeamIdPool) :
                 /\ \A i \in 1..Len(rows) : rows[i].team_id # TeamIdPool[k]
                 /\ \A j \in 1..(k - 1) :
                      \E i \in 1..Len(rows) : rows[i].team_id = TeamIdPool[j]]

canEdit(score, now) ==
    IF score.last_edited_at # {} THEN FALSE
    ELSE now - score.created_at < EditWindow

\* scores.find((s) => s.athlete_id === meId): the index of the row, 0 for none
myScore(rows, me) ==
    IF \E i \in 1..Len(rows) : rows[i].athlete_id = me
    THEN CHOOSE i \in 1..Len(rows) :
           /\ rows[i].athlete_id = me
           /\ \A j \in 1..(i - 1) : rows[j].athlete_id # me
    ELSE 0

\* the for loop of handleSubmit over teamIds from position k: an update of
\* the row myScore in edit mode, an insert otherwise, until the first error.
\* The scores table keeps (wod_date, athlete_id) unique, and its update
\* policy needs auth.uid() = athlete_id on the row before and after.
RECURSIVE writeRows(_, _, _, _, _, _, _, _, _)
writeRows(rows, teamIds, k, teamId, v, guests, mine, me, now) ==
    IF k > Len(teamIds) THEN [rows |-> rows, anyError |-> FALSE]
    ELSE IF mine > 0
    THEN IF /\ rows[mine].athlete_id = me
            /\ teamIds[k] = me
            /\ \A i \in 1..Len(rows) :
                 (i # mine /\ rows[i].wod_date = today) => rows[i].athlete_id # teamIds[k]
         THEN writeRows([rows EXCEPT ![mine] =
                           [@ EXCEPT !.athlete_id = teamIds[k],
                                     !.team_id = teamId,
                                     !.time_seconds = v.time_seconds,
                                     !.amrap_rounds = v.amrap_rounds,
                                     !.amrap_reps = v.amrap_reps,
                                     !.guest_names = guests,
                                     !.last_edited_at = {now}]],
                        teamIds, k + 1, teamId, v, guests, mine, me, now)
         ELSE [rows |-> rows, anyError |-> TRUE]
    ELSE IF \A i \in 1..Len(rows) :
              rows[i].wod_date = today => rows[i].athlete_id # teamIds[k]
         THEN writeRows(Append(rows,
                          [wod_date |-> today, athlete_id |-> teamIds[k], team_id |-> teamId,
                           time_seconds |-> v.time_seconds, amrap_rounds |-> v.amrap_rounds,
                           amrap_reps |-> v.amrap_reps, is_rx |-> TRUE,
                           guest_names |-> guests, created_at |-> now,
                           last_edited_at |-> {}]),
                        teamIds, k + 1, teamId, v, guests, mine, me, now)
         ELSE [rows |-> rows, anyError |-> TRUE]

\* handleSubmit(editing) of the home page, the score being me's own, on a
\* team workout (teammates picked, guest partners named) or a solo workout
handleSubmitTeam(me, teamMates, guests, v) ==
    LET isTeam  == wods[1].is_team
        mine    == IF me \in view.editing THEN myScore(scores, me) ELSE 0
        teamIds == IF isTeam THEN <<me>> \o teamMates ELSE <<me>>
        teamId  == IF isTeam THEN randomUUID(scores) ELSE Null
        w       == writeRows(scores, teamIds, 1, teamId, v, guests, mine, me, clock)
    IN  /\ page = "home"
        /\ IF isTeam THEN Len(teamMates) + guests >= 1
                     ELSE teamMates = <<>> /\ guests = 0
        /\ scores' = w.rows
        /\ attendance' = IF w.anyError THEN attendance
                         ELSE attendance \cup {[athlete_id |-> me, wod_date |-> today]}
        /\ view' = [editing  |-> IF w.anyError THEN view.editing ELSE view.editing \ {me},
                    teamIds  |-> teamIds,
                    anyError |-> w.anyError]
        /\ UNCHANGED <<wods, today, clock, admin, page>>

\* the Edit (30 min) button, shown while canEdit(myScore)
clickEdit(me) ==
    /\ page = "home"
    /\ me \notin view.editing
    /\ myScore(scores, me) > 0
    /\ canEdit(scores[myScore(scores, me)], clock)
    /\ view' = [view EXCEPT !.editing = @ \cup {me}]
    /\ UNCHANGED <<wods, scores, attendance, today, clock, admin, page>>

\* the Cancel button of the edit form
cancelEdit(me) ==
    /\ page = "home"
    /\ me \in view.editing
    /\ view' = [view EXCEPT !.editing = @ \ {me}]
    /\ UNCHANGED <<wods, scores, attendance, today, clock, admin, page>>

\* twenty minutes pass
Tick ==
    /\ clock + 20 <= MaxClock
    /\ clock' = clock + 20
    /\ UNCHANGED <<wods, scores, attendance, today, admin, page, view>>

\* the sequences of distinct teammates of me
MatesOf(me) ==
    {<<>>} \cup {<<a>> : a \in Members \ {me}}
           \cup {p \in (Members \ {me}) \X (Members \ {me}) : p[1] # p[2]}

InitEdit ==
    /\ wods \in {<<HomeWod(1, TRUE)>>, <<HomeWod(1, FALSE)>>}
    /\ scores = <<>>
    /\ attendance = {}
    /\ today = 1
    /\ clock = 0
    /\ page = "home"
    /\ admin = [wodText |-> "", typed |-> 0, detectedType |-> "UNKNOWN"]
    /\ view = [editing |-> {}, teamIds |-> <<>>, anyError |-> FALSE]

NextEdit ==
    \/ \E me \in Members :
         \E mates \in MatesOf(me), guests \in {0, 1},
            v \in {Value({600}, {}, {}), Value({650}, {}, {})} :
           handleSubmitTeam(me, mates, guests, v)
    \/ \E me \in Members : clickEdit(me)
    \/ \E me \in Members : cancelEdit(me)
    \/ Tick

SpecEdit == InitEdit /\ [][NextEdit]_vars

\* ───────────────────────── C27, C28, C29: team entries and edits ─────

\* C27: through every submission and edit a team stays one entry: rows
\* that share a team_id keep sharing one and carry the same score values,
\* and no athlete has two rows of a date.
C27_TeamStaysOneEntry ==
    /\ [](\A i, j \in 1..Len(scores) :
            /\ (i # j /\ scores[i].wod_date = scores[j].wod_date)
                 => scores[i].athlete_id # scores[j].athlete_id
            /\ (scores[i].team_id # Null /\ scores[i].team_id = scores[j].team_id)
                 => ValueOf(scores[i]) = ValueOf(scores[j]))
    /\ [][\A i, j \in 1..Len(scores) :
            (scores[i].team_id # Null /\ scores[i].team_id = scores[j].team_id)
              => /\ scores'[i].team_id = scores'[j].team_id
                 /\ ValueOf(scores'[i]) = ValueOf(scores'[j])]_vars

\* C28: a team submission is all or nothing: when a write fails the scores
\* and attendance tables are as before the submission, and otherwise every
\* member of the submission has a row with the new team_id and the
\* submitter's attendance is logged.
C28_TeamSubmissionAtomic ==
    [][wods[1].is_team =>
         /\ view'.anyError => (scores' = scores /\ attendance' = attendance)
         /\ (scores' # scores /\ ~view'.anyError) =>
              /\ \E t \in Range(TeamIdPool) :
                   /\ \A i \in 1..Len(scores) : scores[i].team_id # t
                   /\ \A m \in Range(view'.teamIds) :
                        \E i \in 1..Len(scores') :
                          scores'[i].athlete_id = m /\ scores'[i].team_id = t
              /\ [athlete_id |-> view'.teamIds[1], wod_date |-> today] \in attendance']_vars

\* C29: a score is edited at most once and only early: a row changes only
\* while canEdit holds for it, the change sets last_edited_at, and
\* last_edited_at, once set, stays set, so canEdit stays false.
C29_EditOnceAndEarly ==
    [][\A i \in 1..Len(scores) :
         /\ scores[i].last_edited_at # {} =>
              (scores'[i].last_edited_at # {} /\ ~canEdit(scores'[i], clock'))
         /\ scores'[i] # scores[i] =>
              /\ scores'[i].last_edited_at # {}
              /\ canEdit(scores[i], clock)]_vars

\* ───────────────────────── C9 ──────────────────────────────────────────

IsBlank(raw) == \A i \in 1..Len(raw) : CharAt(raw, i) \in SpaceChars

HasCue(pats, raw) == TestAny(pats, toLowerCase(raw))

\* C9: the classifier returns the type of the highest-priority cue class the
\* text holds, in the order NO_SCORE, CALORIES, AMRAP, TIME; UNKNOWN exactly
\* for an empty or whitespace-only text, and TIME for a text with no cue.
C9_ClassifierPrecedence ==
    LET raw == admin.wodText
        r   == admin.detectedType
        ns  == HasCue(NoScorePatterns, raw)
        cal == HasCue(CaloriesPatterns, raw)
        am  == HasCue(AmrapPatterns, raw)
    IN  /\ (r = "UNKNOWN")  <=> IsBlank(raw)
        /\ (r = "NO_SCORE") <=> (~IsBlank(raw) /\ ns)
        /\ (r = "CALORIES") <=> (~IsBlank(raw) /\ ~ns /\ cal)
        /\ (r = "AMRAP")    <=> (~IsBlank(raw) /\ ~ns /\ ~cal /\ am)
        /\ (r = "TIME")     <=> (~IsBlank(raw) /\ ~ns /\ ~cal /\ ~am)

\* a text with both a NO_SCORE cue and an AMRAP cue has been classified
C9_Witness ==
    /\ HasCue(NoScorePatterns, admin.wodText)
    /\ HasCue(AmrapPatterns, admin.wodText)
    /\ admin.detectedType = "NO_SCORE"

\* ───────────────────────── C10 ─────────────────────────────────────────

ValidOverrides == {"TIME", "AMRAP", "NO_SCORE"}

\* C10: the effective type of a workout is its override whenever one of
\* TIME, AMRAP, NO_SCORE is set, whatever the text says; the classifier
\* decides only when the override is null; a missing workout is UNKNOWN.
C10_OverrideWins ==
    /\ page = "home" =>
         /\ view.wod = NoWod => view.type = "UNKNOWN"
         /\ view.wod # NoWod =>
              LET w == view.wod[1]
              IN  /\ w.workout_type_override \in ValidOverrides
                       => view.type = w.workout_type_override
                  /\ w.workout_type_override = Null
                       => view.type = detectWorkoutTypeFromWodText(w.wod_text)
    /\ \A i \in 1..Len(wods) :
         /\ wods[i].workout_type_override \in ValidOverrides
              => getEffectiveType(wods[i]) = wods[i].workout_type_override
         /\ wods[i].workout_type_override = Null
              => getEffectiveType(wods[i]) = detectWorkoutTypeFromWodText(wods[i].wod_text)

\* the home page shows a workout whose override differs from what its text says
C10_Witness ==
    /\ page = "home"
    /\ view.wod # NoWod
    /\ view.wod[1].workout_type_override = "TIME"
    /\ detectWorkoutTypeFromWodText(view.wod[1].wod_text) = "AMRAP"
    /\ view.type = "TIME"

====
